---- MODULE Spec2Model ----
(***************************************************************************)
(* Model of the bank-statement import pipeline of the transactions page    *)
(* (src/unnamed/part_003 = src/app/dashboard/transactions/page.tsx) and of *)
(* the backend client it calls (src/unnamed/part_001, endpoints.ts).       *)
(*                                                                         *)
(* Text is modelled as a sequence of one-character strings, so that        *)
(* splitting, trimming, case folding and substring search are computed     *)
(* character by character as the code does.                                *)
(*                                                                         *)
(* Specifications:                                                         *)
(*   SpecLine   parseCSVLine applied to every short line over LineAlphabet *)
(*   SpecCSV    parseCSV applied to texts assembled from LinePalette       *)
(*   SpecDetect detectTransactionType applied to descriptions assembled    *)
(*              from DescWords, every bank category, three amounts         *)
(*   SpecAmount parseBankAmount applied to every short string over         *)
(*              AmountAlphabet                                             *)
(*   SpecDate   parseBankDate applied to strings assembled from DateParts  *)
(*   SpecMerchant extractMerchant applied to descriptions assembled from   *)
(*              MerchantPieces                                             *)
(*   Spec       the page: mount, one run of handleFileUpload against a     *)
(*              backend whose requests resolve or reject, the refresh and  *)
(*              the reset timer                                            *)
(*   SpecRows   an upload, then the buttons of a transaction row: link to  *)
(*              a bill, unmark, create a bill from the transaction         *)
(*   SpecBills  an upload, then the bills page: the add form, the edit     *)
(*              form and delete, against a backend that ignores or stores  *)
(*              a null in a PATCH body                                     *)
(*   SpecUploads  two runs of handleFileUpload, one after or beside the    *)
(*              other; of the requests only createBill is refused          *)
(*   SpecMonth  the month buttons, from the months of four clocks          *)
(*   SpecPayments  the bills page: the paid checkboxes of three bills      *)
(*   SpecRefresh  the bills page: the month buttons and a paid checkbox    *)
(*              with overlapping refreshes, no request refused             *)
(*   SpecPayroll  the bills page: refreshes over two days of the clock and *)
(*              the payroll they apply                                     *)
(*   SpecLogin  the login form against the answers of /auth/login, logout  *)
(*              and the bills page's session check                         *)
(***************************************************************************)
EXTENDS Integers, Sequences, FiniteSets, TLC

VARIABLES
    \* the browser's environment
    timeZoneOffset,     \* local time minus UTC, in hours
    \* pure-function harness
    called,     \* which function has been applied ("none" before)
    arg,        \* the input drawn by Init
    ret,        \* the value the function returned
    \* TransactionsPage state (useState), part_003:579-588
    userId,             \* "" until the mount effect has read it from localStorage
    error,              \* the error banner
    loading,
    transactions,       \* as last fetched by refresh
    bills,              \* as last fetched by refresh (active ones)
    uploadingAccount,   \* an account type, or "null"
    uploadProgress,     \* the progress message (see Progress)
    resetTimer,         \* the setTimeout of part_003:752 is pending
    \* one run of handleFileUpload: where it is suspended, and its locals
    pc,
    accountType,
    fileText,
    parsed,
    importRecord,
    activeBills,
    createdBillsByMerchant,
    txnData,
    row,                \* index into parsed of the row the for-loop is at
    thrown,             \* message of the error the catch block caught
    \* the backend (external collaborator) and the requests sent to it
    dbBills,
    dbImports,
    dbRaw,
    dbTransactions,
    requests,           \* every request of the run, in issue order, with its status
    \* the handlers behind the buttons of a transaction row, part_003:763-791
    rowPc,              \* where the running handler is suspended ("idle" if none runs)
    rowTxn,             \* the transaction the running handler was called for
    clicks,             \* how many handlers have been started
    writes,             \* the requests the handlers sent, with their bodies
    \* BillsPage state (useState), bills/page.tsx:76-87, and its handlers
    billsUserId,        \* "" until the mount effect has read it from localStorage
    billsError,         \* the error banner
    billsShown,         \* the bills as last fetched by refresh
    showAdd,            \* the add form is open
    savingNewBill,
    editingBill,        \* <<bill>> while the edit form is open on it, or <<>>
    billsPc,            \* where the running handler is suspended ("idle" if none runs)
    billRequests,       \* the requests the page sent, with their bodies
    \* the backend's reading of a null in the body of PATCH /bills/{id}
    nullInPatch,        \* "ignored": the field is left as it was; "stored": it is set to null
    dbNulls,            \* <<id, field>> for the name and flags of a bill that hold null
    \* the other runs of handleFileUpload: the page holds the locals of one run
    \* in pc .. thrown, and those of the runs started before or beside it here
    suspended,          \* per run: its locals, and the requests it has sent
    switches,           \* how often the page has turned to another run (Resume)
    \* the month shown, bills/page.tsx:72 and part_003:580, and how it was reached
    month,              \* "YYYY-MM"
    monthOps,           \* the month buttons pressed: which, the month before and after
    \* BillsPage: payments, the month's transactions, balances, bills/page.tsx:76-93
    payments,           \* as last fetched, by refresh or after a toggle
    billsTransactions,  \* the month's transactions as last fetched by refresh
    fetchedFor,         \* the months the payments and the transactions in state were asked for
    accountBalances,    \* <<balances>> or <<>> for null
    billsLoading,
    savingPaymentIds,
    tasks,              \* the handlers of the page that are suspended at an await
    upserts,            \* the bodies of the upsertBillPayment requests sent
    payrollLog,         \* when an upsertAccountBalances with the payroll added was sent
    \* the backend's payment and balance tables, and the clock
    dbPayments,
    dbBalances,
    clock,              \* UTC day (0 is Thursday 2024-03-07) and hour
    \* LoginPage state, login/page.tsx:10-14, the session in localStorage, and the page shown
    authToken,
    storedUserId,
    loginError,
    loginLoading,
    loginPc,
    route,
    logins

envVars == <<timeZoneOffset, nullInPatch>>
monthVars == <<month, monthOps>>
payVars == <<payments, billsTransactions, fetchedFor, accountBalances, billsLoading,
             savingPaymentIds, tasks, upserts, payrollLog, dbPayments, dbBalances, clock>>
loginVars == <<authToken, storedUserId, loginError, loginLoading, loginPc, route, logins>>
uploadsVars == <<suspended, switches>>
billsVars == <<billsUserId, billsError, billsShown, showAdd, savingNewBill, editingBill,
               billsPc, billRequests, dbNulls>>
rowVars == <<rowPc, rowTxn, clicks, writes>>
pureVars == <<called, arg, ret>>
pageVars == <<userId, error, loading, transactions, bills, uploadingAccount,
              uploadProgress, resetTimer>>
runVars == <<pc, accountType, fileText, parsed, importRecord, activeBills,
             createdBillsByMerchant, txnData, row, thrown>>
dbVars == <<dbBills, dbImports, dbRaw, dbTransactions>>
vars == <<envVars, loginVars, monthVars, payVars, uploadsVars, billsVars, rowVars, pureVars, pageVars, runVars, dbVars, requests>>

(***************************************************************************)
(* Bounds of the model                                                     *)
(***************************************************************************)
MaxLineLen == 5     \* longest line handed to parseCSVLine in SpecLine
MaxLines == 4       \* most lines of a text handed to parseCSV in SpecCSV
MaxDescWords == 2   \* most words of a description handed to detectTransactionType in SpecDetect
MaxRows == 2        \* most data rows of an uploaded statement file in Spec
MaxAmountLen == 4   \* longest string handed to parseBankAmount in SpecAmount
MaxMerchantPieces == 2  \* most pieces of a description handed to extractMerchant in SpecMerchant
MaxClicks == 1      \* most row-button handlers started in SpecRows
MaxDateParts == 3   \* most "/"-separated parts of a string handed to parseBankDate in SpecDate

(***************************************************************************)
(* Characters and strings                                                  *)
(***************************************************************************)
Upper == <<"A", "B", "C", "D", "E", "F", "G", "H", "I", "J", "K", "L", "M",
           "N", "O", "P", "Q", "R", "S", "T", "U", "V", "W", "X", "Y", "Z">>
Lower == <<"a", "b", "c", "d", "e", "f", "g", "h", "i", "j", "k", "l", "m",
           "n", "o", "p", "q", "r", "s", "t", "u", "v", "w", "x", "y", "z">>
Digits == <<"0", "1", "2", "3", "4", "5", "6", "7", "8", "9">>

\* String.prototype.toLowerCase on one character
toLowerChar(c) ==
    IF \E i \in 1..Len(Upper) : Upper[i] = c
    THEN Lower[CHOOSE i \in 1..Len(Upper) : Upper[i] = c]
    ELSE c

\* String.prototype.toLowerCase
toLowerCase(s) == [i \in 1..Len(s) |-> toLowerChar(s[i])]

\* the characters String.prototype.trim removes and the regex class \s matches
IsSpace(c) == c \in {" ", "\t", "\n", "\r"}

\* the regex class \d
IsDigit(c) == \E i \in 1..Len(Digits) : Digits[i] = c

DigitValue(c) == (CHOOSE i \in 1..Len(Digits) : Digits[i] = c) - 1

RECURSIVE trimStart(_)
trimStart(s) ==
    IF s # <<>> /\ IsSpace(Head(s)) THEN trimStart(Tail(s)) ELSE s

RECURSIVE trimEnd(_)
trimEnd(s) ==
    IF s # <<>> /\ IsSpace(s[Len(s)]) THEN trimEnd(SubSeq(s, 1, Len(s) - 1)) ELSE s

\* String.prototype.trim
trim(s) == trimEnd(trimStart(s))

\* s.substring(0, n)
substring0(s, n) == SubSeq(s, 1, IF Len(s) < n THEN Len(s) ELSE n)

\* does needle occur in hay at 1-based position p
OccursAt(hay, needle, p) ==
    /\ p >= 1
    /\ p + Len(needle) - 1 <= Len(hay)
    /\ \A j \in 1..Len(needle) : hay[p + j - 1] = needle[j]

\* String.prototype.includes
includes(hay, needle) == \E p \in 1..(Len(hay) + 1) : OccursAt(hay, needle, p)

\* String.prototype.split(sep) for a one-character separator: the pieces between
\* consecutive occurrences of sep, one more than there are occurrences
split(s, sep) ==
    LET at == SelectSeq([i \in 1..Len(s) |-> i], LAMBDA i : s[i] = sep)
        n == Len(at)
    IN  [k \in 1..(n + 1) |->
            SubSeq(s, IF k = 1 THEN 1 ELSE at[k - 1] + 1,
                      IF k = n + 1 THEN Len(s) ELSE at[k] - 1)]

\* String.prototype.padStart(n, "0")
RECURSIVE padStart0(_, _)
padStart0(s, n) == IF Len(s) >= n THEN s ELSE padStart0(<<"0">> \o s, n)

\* Array.prototype.join with a one-character separator (used to assemble inputs)
RECURSIVE join(_, _)
join(parts, sep) ==
    IF parts = <<>> THEN <<>>
    ELSE IF Len(parts) = 1 THEN parts[1]
    ELSE parts[1] \o <<sep>> \o join(Tail(parts), sep)

(***************************************************************************)
(* parseCSVLine, part_003:446-464                                          *)
(***************************************************************************)
\* the loop of parseCSVLine from index i on, up to the next comma outside quotes
\* or to the end of the line: the index it stops at and the locals there
RECURSIVE scanField(_, _, _, _)
scanField(line, i, current, inQuotes) ==
    IF i > Len(line) THEN [i |-> i, current |-> current, inQuotes |-> inQuotes]
    ELSE LET char == line[i] IN
         IF char = "\"" THEN scanField(line, i + 1, current, ~inQuotes)
         ELSE IF char = "," /\ ~inQuotes
         THEN [i |-> i, current |-> current, inQuotes |-> inQuotes]
         ELSE scanField(line, i + 1, Append(current, char), inQuotes)

\* the loop of parseCSVLine from index i on: at a comma outside quotes the field
\* is pushed and current is reset; after the loop the last field is pushed
RECURSIVE parseCSVLineFrom(_, _, _, _)
parseCSVLineFrom(line, i, result, inQuotes) ==
    LET f == scanField(line, i, <<>>, inQuotes) IN
    IF f.i > Len(line) THEN Append(result, trim(f.current))
    ELSE parseCSVLineFrom(line, f.i + 1, Append(result, trim(f.current)), f.inQuotes)

\* mutant: quotes are removed but do not protect the commas they enclose
parseCSVLine_splitsInQuotes(line) ==
    LET fields == split(line, ",") IN
    [k \in 1..Len(fields) |-> trim(SelectSeq(fields[k], LAMBDA c : c # "\""))]

parseCSVLine(line) == parseCSVLineFrom(line, 1, <<>>, FALSE)

(***************************************************************************)
(* Numbers.  A JavaScript number that a decimal literal denotes is kept    *)
(* exactly as m / 10^e with no trailing zero in the fraction; NaN is the   *)
(* record with nan = TRUE.                                                 *)
(***************************************************************************)
NaN == [nan |-> TRUE, m |-> 0, e |-> 0]
Zero == [nan |-> FALSE, m |-> 0, e |-> 0]

RECURSIVE digitPrefix(_)
digitPrefix(s) ==
    IF s # <<>> /\ IsDigit(Head(s)) THEN <<Head(s)>> \o digitPrefix(Tail(s)) ELSE <<>>

RECURSIVE digitsToNat(_)
digitsToNat(ds) ==
    IF ds = <<>> THEN 0
    ELSE 10 * digitsToNat(SubSeq(ds, 1, Len(ds) - 1)) + DigitValue(ds[Len(ds)])

RECURSIVE stripTrailingZeros(_)
stripTrailingZeros(ds) ==
    IF ds # <<>> /\ ds[Len(ds)] = "0"
    THEN stripTrailingZeros(SubSeq(ds, 1, Len(ds) - 1)) ELSE ds

\* the global parseFloat on a decimal literal without exponent: leading white
\* space is skipped, then the longest prefix [+-]digits[.digits] is read
parseFloat(s) ==
    LET t == trimStart(s)
        signed == t # <<>> /\ t[1] \in {"-", "+"}
        neg == t # <<>> /\ t[1] = "-"
        u == IF signed THEN Tail(t) ELSE t
        intPart == digitPrefix(u)
        rest == SubSeq(u, Len(intPart) + 1, Len(u))
        hasDot == rest # <<>> /\ rest[1] = "."
        fracPart == IF hasDot THEN digitPrefix(Tail(rest)) ELSE <<>>
        frac == stripTrailingZeros(fracPart)
        mag == digitsToNat(intPart \o frac)
    IN  IF Len(intPart) + Len(fracPart) = 0 THEN NaN
        ELSE [nan |-> FALSE, m |-> IF neg THEN -mag ELSE mag, e |-> Len(frac)]

\* the global parseInt as parseBankDate uses it, on a two-character string: white
\* space and a sign are skipped and the decimal digits that follow are read; "0x"
\* starts a hexadecimal literal, which in two characters has no digit
parseInt(s) ==
    LET t == trimStart(s)
        signed == t # <<>> /\ t[1] \in {"-", "+"}
        neg == t # <<>> /\ t[1] = "-"
        u == IF signed THEN Tail(t) ELSE t
        hex == Len(u) >= 2 /\ u[1] = "0" /\ u[2] \in {"x", "X"}
        ds == digitPrefix(u)
    IN  IF hex \/ ds = <<>> THEN NaN
        ELSE [nan |-> FALSE, m |-> IF neg THEN -digitsToNat(ds) ELSE digitsToNat(ds), e |-> 0]

(***************************************************************************)
(* Field normalizers, part_003:466-483                                     *)
(***************************************************************************)
\* mutant: the thousands separators are left in
parseBankAmount_keepsCommas(amountStr) ==
    LET cleaned == trim(SelectSeq(amountStr, LAMBDA c : c \notin {"$", "\""}))
        v == parseFloat(cleaned)
    IN  IF v.nan \/ v.m = 0 THEN Zero ELSE v

parseBankAmount(amountStr) ==
    LET cleaned == trim(SelectSeq(amountStr, LAMBDA c : c \notin {"$", "\"", ","}))
        v == parseFloat(cleaned)
    IN  IF v.nan \/ v.m = 0 THEN Zero ELSE v

\* mutant: the century pivot is at 50 instead of above 50
parseBankDate_pivotAt50(dateStr) ==
    LET parts == split(dateStr, "/") IN
    IF Len(parts) = 3 THEN
        LET y == parts[3]
            n == parseInt(y)
            year == IF Len(y) = 2
                    THEN (IF ~n.nan /\ n.m >= 50 THEN <<"1", "9">> ELSE <<"2", "0">>) \o y
                    ELSE y
        IN  year \o <<"-">> \o padStart0(parts[1], 2) \o <<"-">> \o padStart0(parts[2], 2)
    ELSE dateStr

parseBankDate(dateStr) ==
    LET parts == split(dateStr, "/") IN
    IF Len(parts) = 3 THEN
        LET mon == padStart0(parts[1], 2)
            day == padStart0(parts[2], 2)
            y == parts[3]
            n == parseInt(y)
            year == IF Len(y) = 2
                    THEN (IF ~n.nan /\ n.m > 50 THEN <<"1", "9">> ELSE <<"2", "0">>) \o y
                    ELSE y
        IN  year \o <<"-">> \o mon \o <<"-">> \o day
    ELSE dateStr

(***************************************************************************)
(* parseCSV, part_003:485-509                                              *)
(***************************************************************************)
MinFields == 9

\* csvText.split("\n").filter((line) => line.trim())
nonBlankLines(csvText) ==
    SelectSeq(split(csvText, "\n"), LAMBDA line : trim(line) # <<>>)

\* the loop of parseCSV from line index i on (1-based: the loop starts at 2)
RECURSIVE parseCSVFrom(_, _, _)
parseCSVFrom(lines, i, parsedSoFar) ==
    IF i > Len(lines) THEN parsedSoFar
    ELSE LET fields == parseCSVLine(lines[i]) IN
         IF Len(fields) < MinFields THEN parseCSVFrom(lines, i + 1, parsedSoFar)
         ELSE parseCSVFrom(lines, i + 1, Append(parsedSoFar,
                  [bank_account_id |-> fields[1],
                   bank_transaction_id |-> fields[2],
                   date |-> parseBankDate(fields[3]),
                   description |-> fields[4],
                   amount |-> parseBankAmount(fields[8]),
                   balance |-> parseBankAmount(fields[9]),
                   bank_category |-> fields[6]]))

\* mutant: the header line is parsed as a data row
parseCSV_keepsHeader(csvText) == parseCSVFrom(nonBlankLines(csvText), 1, <<>>)

parseCSV(csvText) ==
    LET lines == nonBlankLines(csvText) IN
    IF Len(lines) < 2 THEN <<>> ELSE parseCSVFrom(lines, 2, <<>>)

(***************************************************************************)
(* detectTransactionType, part_003:528-562                                 *)
(***************************************************************************)
kwPayroll == <<"p", "a", "y", "r", "o", "l", "l">>
kwDepositAch == <<"d", "e", "p", "o", "s", "i", "t", " ", "a", "c", "h">>
kwDividend == <<"d", "i", "v", "i", "d", "e", "n", "d">>
kwTransfer == <<"t", "r", "a", "n", "s", "f", "e", "r">>
kwAppleBill == <<"a", "p", "p", "l", "e", ".", "c", "o", "m", "/", "b", "i", "l", "l">>
kwGodaddy == <<"g", "o", "d", "a", "d", "d", "y">>
kwGuardianLife == <<"g", "u", "a", "r", "d", "i", "a", "n", " ", "l", "i", "f", "e">>
kwFirstmark == <<"f", "i", "r", "s", "t", "m", "a", "r", "k">>
kwMrCooper == <<"m", "r", ".", "c", "o", "o", "p", "e", "r">>
kwNsmDbamr == <<"n", "s", "m", " ", "d", "b", "a", "m", "r">>
kwEzPass == <<"e", "z", " ", "p", "a", "s", "s">>
catPaychecks == <<"P", "a", "y", "c", "h", "e", "c", "k", "s", "/", "S", "a", "l", "a", "r", "y">>
catInvestmentIncome == <<"I", "n", "v", "e", "s", "t", "m", "e", "n", "t", " ", "I", "n", "c", "o", "m", "e">>
catTransfers == <<"T", "r", "a", "n", "s", "f", "e", "r", "s">>
catInsurance == <<"I", "n", "s", "u", "r", "a", "n", "c", "e">>
catMortgages == <<"M", "o", "r", "t", "g", "a", "g", "e", "s">>
catLoans == <<"L", "o", "a", "n", "s">>
catOnlineServices == <<"O", "n", "l", "i", "n", "e", " ", "S", "e", "r", "v", "i", "c", "e", "s">>

\* mutant: the transfer rule is tried before the income rule
detectTransactionType_transferFirst(description, amount, bankCategory) ==
    LET desc == toLowerCase(description) IN
    IF includes(desc, kwTransfer) \/ bankCategory = catTransfers THEN "transfer"
    ELSE IF \/ includes(desc, kwPayroll)
            \/ includes(desc, kwDepositAch)
            \/ includes(desc, kwDividend)
            \/ bankCategory = catPaychecks
            \/ bankCategory = catInvestmentIncome
    THEN "income"
    ELSE IF \/ includes(desc, kwAppleBill)
            \/ includes(desc, kwGodaddy)
            \/ includes(desc, kwGuardianLife)
            \/ includes(desc, kwFirstmark)
            \/ includes(desc, kwMrCooper)
            \/ includes(desc, kwNsmDbamr)
            \/ includes(desc, kwEzPass)
            \/ bankCategory = catInsurance
            \/ bankCategory = catMortgages
            \/ bankCategory = catLoans
            \/ bankCategory = catOnlineServices
    THEN "recurring"
    ELSE "misc"

detectTransactionType(description, amount, bankCategory) ==
    LET desc == toLowerCase(description) IN
    IF \/ includes(desc, kwPayroll)
       \/ includes(desc, kwDepositAch)
       \/ includes(desc, kwDividend)
       \/ bankCategory = catPaychecks
       \/ bankCategory = catInvestmentIncome
    THEN "income"
    ELSE IF includes(desc, kwTransfer) \/ bankCategory = catTransfers THEN "transfer"
    ELSE IF \/ includes(desc, kwAppleBill)
            \/ includes(desc, kwGodaddy)
            \/ includes(desc, kwGuardianLife)
            \/ includes(desc, kwFirstmark)
            \/ includes(desc, kwMrCooper)
            \/ includes(desc, kwNsmDbamr)
            \/ includes(desc, kwEzPass)
            \/ bankCategory = catInsurance
            \/ bankCategory = catMortgages
            \/ bankCategory = catLoans
            \/ bankCategory = catOnlineServices
    THEN "recurring"
    ELSE "misc"

(***************************************************************************)
(* extractMerchant, part_003:511-526.  A regular expression is matched as  *)
(* the backtracking matcher does: each quantifier yields the positions it  *)
(* can end at, in the order the matcher tries them (greedy: longest first, *)
(* an optional group: taken before skipped), and the first combination for *)
(* which the rest of the pattern matches decides the capture group.        *)
(***************************************************************************)
MaxMerchantLen == 50

\* the literal w occurs in s at position p, letters compared without regard to
\* case (the patterns carry the i flag)
litAt(s, p, w) ==
    /\ p + Len(w) - 1 <= Len(s)
    /\ \A j \in 1..Len(w) : toLowerChar(s[p + j - 1]) = toLowerChar(w[j])

RECURSIVE Flatten(_)
Flatten(ss) == IF ss = <<>> THEN <<>> ELSE Head(ss) \o Flatten(Tail(ss))

\* the number of consecutive characters from position p on that satisfy the class
RECURSIVE spaceRun(_, _)
spaceRun(s, p) == IF p <= Len(s) /\ IsSpace(s[p]) THEN 1 + spaceRun(s, p + 1) ELSE 0

RECURSIVE digitRun(_, _)
digitRun(s, p) == IF p <= Len(s) /\ IsDigit(s[p]) THEN 1 + digitRun(s, p + 1) ELSE 0

\* (?:w1|w2|...)? at p: the positions after each alternative that matches, in
\* order, then p itself (the group skipped)
optAltEnds(s, p, alts) ==
    SelectSeq([k \in 1..Len(alts) |-> IF litAt(s, p, alts[k]) THEN p + Len(alts[k]) ELSE 0],
              LAMBDA q : q # 0) \o <<p>>

\* \s* at p: the positions after n, n-1, ..., 0 white-space characters
starSpaceEnds(s, p) ==
    LET n == spaceRun(s, p) IN [k \in 1..(n + 1) |-> p + n - (k - 1)]

\* (?:Debit Gold|#\d+)? at p
optDebitGoldOrNumberEnds(s, p) ==
    LET gold == IF litAt(s, p, <<"D", "e", "b", "i", "t", " ", "G", "o", "l", "d">>) THEN <<p + 10>> ELSE <<>>
        d == IF p <= Len(s) /\ s[p] = "#" THEN digitRun(s, p + 1) ELSE 0
        number == [k \in 1..d |-> p + 1 + d - (k - 1)]
    IN  gold \o number \o <<p>>

\* the positions at which the capture group of the first pattern can start, in
\* the order the matcher tries them
captureStarts1(s) ==
    LET a == optAltEnds(s, 1, << <<"W", "i", "t", "h", "d", "r", "a", "w", "a", "l">>,
                                 <<"D", "e", "p", "o", "s", "i", "t">>,
                                 <<"R", "e", "c", "u", "r", "r", "i", "n", "g", " ", "W", "i", "t", "h", "d", "r", "a", "w", "a", "l">> >>)
        b == Flatten([k \in 1..Len(a) |-> starSpaceEnds(s, a[k])])
        c == Flatten([k \in 1..Len(b) |->
                 optAltEnds(s, b[k], << <<"D", "e", "b", "i", "t", " ", "C", "a", "r", "d">>, <<"P", "O", "S">>, <<"A", "C", "H">> >>)])
        d == Flatten([k \in 1..Len(c) |-> starSpaceEnds(s, c[k])])
        e == Flatten([k \in 1..Len(d) |-> optDebitGoldOrNumberEnds(s, d[k])])
    IN  Flatten([k \in 1..Len(e) |-> starSpaceEnds(s, e[k])])

\* (?:\d{3,}|Date|Card|Entry) at q
tail1At(s, q) ==
    \/ digitRun(s, q) >= 3
    \/ \E w \in { <<"D", "a", "t", "e">>, <<"C", "a", "r", "d">>, <<"E", "n", "t", "r", "y">> } : litAt(s, q, w)

\* (?:SEATTLE|PENNSVILLE|CUPERTINO|NEWARK|MARLTON|WOODSTOWN|HARRISBURG) at q
tail3At(s, q) ==
    \E w \in { <<"S", "E", "A", "T", "T", "L", "E">>,
               <<"P", "E", "N", "N", "S", "V", "I", "L", "L", "E">>,
               <<"C", "U", "P", "E", "R", "T", "I", "N", "O">>,
               <<"N", "E", "W", "A", "R", "K">>,
               <<"M", "A", "R", "L", "T", "O", "N">>,
               <<"W", "O", "O", "D", "S", "T", "O", "W", "N">>,
               <<"H", "A", "R", "R", "I", "S", "B", "U", "R", "G">> } :
        litAt(s, q, w)

\* (.+?)\s+TAIL with the group starting at p: the ends e of the group for which
\* the rest matches; "." matches no line terminator
lazyGroupEnds(s, p, tailAt(_, _)) ==
    {e \in p..Len(s) :
        /\ \A i \in p..e : s[i] \notin {"\n", "\r"}
        /\ \E k \in 1..spaceRun(s, e + 1) : tailAt(s, e + 1 + k)}

\* the lazy group takes the shortest end
lazyGroup(s, p, tailAt(_, _)) ==
    LET ends == lazyGroupEnds(s, p, tailAt)
    IN  SubSeq(s, p, CHOOSE e \in ends : \A f \in ends : e <= f)

\* description.match(patterns[0]): <<>> for null, else <<match[1]>>
match1(s) ==
    LET starts == SelectSeq(captureStarts1(s),
                            LAMBDA p : lazyGroupEnds(s, p, tail1At) # {})
    IN  IF starts = <<>> THEN <<>> ELSE <<lazyGroup(s, starts[1], tail1At)>>

\* description.match(patterns[1]): the group is the word To or From as written
match2(s) ==
    LET a == SelectSeq(<< <<"W", "i", "t", "h", "d", "r", "a", "w", "a", "l">>, <<"D", "e", "p", "o", "s", "i", "t">> >>,
                       LAMBDA w : litAt(s, 1, w))
        \* positions after (?:Withdrawal|Deposit)\s+(?:Online Banking )?Transfer\s+
        groupStarts ==
            {q \in 1..(Len(s) + 1) :
                \E k \in 1..Len(a) :
                \E n1 \in 1..spaceRun(s, 1 + Len(a[k])) :
                \E ob \in {0, 15} :
                    LET t == 1 + Len(a[k]) + n1 + ob IN
                    /\ ob = 15 => litAt(s, 1 + Len(a[k]) + n1, <<"O", "n", "l", "i", "n", "e", " ", "B", "a", "n", "k", "i", "n", "g", " ">>)
                    /\ litAt(s, t, <<"T", "r", "a", "n", "s", "f", "e", "r">>)
                    /\ q > t + 8
                    /\ q - (t + 8) <= spaceRun(s, t + 8)}
        words == { <<"T", "o">>, <<"F", "r", "o", "m">> }
        hits == {qw \in groupStarts \X words :
                    /\ litAt(s, qw[1], qw[2])
                    /\ spaceRun(s, qw[1] + Len(qw[2])) >= 1}
        groups == {SubSeq(s, qw[1], qw[1] + Len(qw[2]) - 1) : qw \in hits}
    IN  IF groups = {} THEN <<>> ELSE <<CHOOSE g \in groups : TRUE>>

\* description.match(patterns[2])
match3(s) ==
    IF lazyGroupEnds(s, 1, tail3At) = {} THEN <<>> ELSE <<lazyGroup(s, 1, tail3At)>>

\* mutant: the fallback returns the description without truncation and the
\* captured group is returned as written
extractMerchant_untrimmed(description) ==
    LET ms == SelectSeq(<<match1(description), match2(description), match3(description)>>,
                        LAMBDA m : m # <<>> /\ m[1] # <<>>)
    IN  IF ms # <<>> THEN ms[1][1] ELSE description

extractMerchant(description) ==
    LET ms == SelectSeq(<<match1(description), match2(description), match3(description)>>,
                        LAMBDA m : m # <<>> /\ m[1] # <<>>)
    IN  IF ms # <<>> THEN substring0(trim(ms[1][1]), MaxMerchantLen)
        ELSE substring0(description, MaxMerchantLen)

(***************************************************************************)
(* findMatchingBill, part_003:565-575                                      *)
(***************************************************************************)
\* mutant: only "the merchant label contains the bill's name" is tested
billMatches_oneWay(merchantLower, bill) ==
    includes(merchantLower, toLowerCase(bill.name))

\* the body of the for-loop: does this bill match
billMatches(merchantLower, bill) ==
    LET billNameLower == toLowerCase(bill.name) IN
    includes(merchantLower, billNameLower) \/ includes(billNameLower, merchantLower)

\* <<>> for null, else <<bill>>
findMatchingBill(merchant, billList) ==
    LET merchantLower == toLowerCase(merchant)
        hits == SelectSeq(billList, LAMBDA bill : billMatches(merchantLower, bill))
    IN  IF hits = <<>> THEN <<>> ELSE <<hits[1]>>

(***************************************************************************)
(* Inputs of the pure-function specifications                              *)
(***************************************************************************)
LineAlphabet == {",", "\"", " ", "a"}

\* every sequence over S of length at most n
SeqsUpTo(S, n) == UNION {[1..k -> S] : k \in 0..n}

\* lines a statement file is assembled from: blank lines, rows of nine and of ten
\* fields (plain and quoted), and rows that split into fewer than nine (eight
\* plain fields; ten commas of which one lies outside quotes)
LinePalette ==
    { <<>>,
      <<" ", "\r">>,
      <<"a", ",", "b", ",", "1", "/", "2", "/", "5", "1", ",", "D", ",", ",", "C", ",", ",", "-", "1", ".", "5", ",", "9">>,
      <<"a", ",", "b", ",", "x", ",", "\"", "D", ",", "E", "\"", ",", ",", "C", ",", ",", "$", "2", ",", "7", ",", "z">>,
      <<"a", ",", "b", ",", "c", ",", "d", ",", "e", ",", "f", ",", "g", ",", "h">>,
      <<"a", ",", "\"", "b", ",", "c", ",", "d", ",", "e", ",", "f", ",", "g", ",", "h", ",", "i", ",", "j", "\"">> }

\* words a description is assembled from: every keyword of the classifier in a
\* letter case other than the code's, a merchant no rule names, and a near miss
DescWords ==
    { <<"P", "A", "Y", "R", "O", "L", "L">>,
      <<"D", "e", "p", "o", "s", "i", "t", " ", "A", "C", "H">>,
      <<"D", "i", "v", "i", "d", "e", "n", "d">>,
      <<"T", "r", "a", "n", "s", "f", "e", "r">>,
      <<"A", "P", "P", "L", "E", ".", "C", "O", "M", "/", "B", "I", "L", "L">>,
      <<"G", "o", "D", "a", "d", "d", "y">>,
      <<"G", "u", "a", "r", "d", "i", "a", "n", " ", "L", "i", "f", "e">>,
      <<"F", "I", "R", "S", "T", "M", "A", "R", "K">>,
      <<"M", "r", ".", "C", "o", "o", "p", "e", "r">>,
      <<"N", "S", "M", " ", "D", "B", "A", "M", "R">>,
      <<"E", "Z", " ", "P", "a", "s", "s">>,
      <<"N", "E", "T", "F", "L", "I", "X">>,
      <<"P", "a", "y", "r", "o", "l">> }

Descriptions == {join(ws, " ") : ws \in SeqsUpTo(DescWords, MaxDescWords)}

\* the bank categories the classifier names, and three it does not (empty, a
\* category in another letter case, an unrelated one)
BankCategories ==
    { catPaychecks, catInvestmentIncome, catTransfers, catInsurance, catMortgages,
      catLoans, catOnlineServices,
      <<>>,
      <<"i", "n", "s", "u", "r", "a", "n", "c", "e">>,
      <<"G", "r", "o", "c", "e", "r", "i", "e", "s">> }

\* amounts: an outflow, zero, an inflow
Amounts ==
    { [nan |-> FALSE, m |-> -1599, e |-> 2], Zero, [nan |-> FALSE, m |-> 2500, e |-> 0] }

CsvTexts == {join(ls, "\n") : ls \in SeqsUpTo(LinePalette, MaxLines)}

\* a progress message: its fixed text, and the values interpolated into it
Progress(text, n, k, merchant) == [text |-> text, n |-> n, k |-> k, merchant |-> merchant]
NoProgress == Progress("", 0, 0, <<>>)

\* bill_id: null, or a bill's id
NoBill == <<>>

\* the page before its mount effect, no upload started, nothing sent
PageIdle ==
    /\ userId = ""
    /\ error = ""
    /\ loading = TRUE
    /\ transactions = <<>>
    /\ bills = <<>>
    /\ uploadingAccount = "null"
    /\ uploadProgress = NoProgress
    /\ resetTimer = FALSE
    /\ pc = "idle"
    /\ accountType = "null"
    /\ fileText = <<>>
    /\ parsed = <<>>
    /\ importRecord = <<>>
    /\ activeBills = <<>>
    /\ createdBillsByMerchant = <<>>
    /\ txnData = <<>>
    /\ row = 0
    /\ thrown = ""
    /\ dbImports = <<>>
    /\ dbRaw = <<>>
    /\ requests = <<>>
    /\ rowPc = "idle"
    /\ rowTxn = 0
    /\ clicks = 0
    /\ writes = <<>>
    /\ billsUserId = ""
    /\ billsError = ""
    /\ billsShown = <<>>
    /\ showAdd = FALSE
    /\ savingNewBill = FALSE
    /\ editingBill = <<>>
    /\ billsPc = "idle"
    /\ billRequests = <<>>
    /\ dbNulls = {}
    /\ suspended = <<>>
    /\ switches = 0
    /\ authToken = <<>>
    /\ storedUserId = <<>>
    /\ loginError = ""
    /\ loginLoading = FALSE
    /\ loginPc = "idle"
    /\ route = "login"
    /\ logins = 0
    /\ monthOps = <<>>
    /\ payments = <<>>
    /\ billsTransactions = <<>>
    /\ fetchedFor = [payments |-> <<>>, transactions |-> <<>>]
    /\ accountBalances = <<>>
    /\ billsLoading = TRUE
    /\ savingPaymentIds = {}
    /\ tasks = <<>>
    /\ upserts = <<>>
    /\ payrollLog = <<>>

\* no transactions, payments or balances on record; Thursday 2024-03-07, noon UTC
EmptyTables ==
    /\ dbTransactions = <<>>
    /\ dbPayments = <<>>
    /\ dbBalances = <<>>
    /\ clock = [day |-> 0, hour |-> 12]

\* the month of a page opened in March 2024
MonthAtOpen == <<"2", "0", "2", "4", "-", "0", "3">>

FlowIdle ==
    /\ PageIdle
    /\ month = MonthAtOpen
    /\ EmptyTables
    /\ dbBills = <<>>
    /\ timeZoneOffset = 0
    /\ nullInPatch = "ignored"

(***************************************************************************)
(* Pure-function harness: Init draws the input, one action applies the     *)
(* function.                                                               *)
(***************************************************************************)
InitLine ==
    /\ called = "none"
    /\ arg \in SeqsUpTo(LineAlphabet, MaxLineLen)
    /\ ret = <<>>
    /\ FlowIdle

CallParseCSVLine ==
    /\ called = "none"
    /\ called' = "parseCSVLine"
    /\ ret' = parseCSVLine(arg)
    /\ UNCHANGED <<arg, envVars, loginVars, monthVars, payVars, uploadsVars, billsVars, rowVars, pageVars, runVars, dbVars, requests>>

NextLine == CallParseCSVLine

SpecLine == InitLine /\ [][NextLine]_vars

InitCSV ==
    /\ called = "none"
    /\ arg \in CsvTexts
    /\ ret = <<>>
    /\ FlowIdle

CallParseCSV ==
    /\ called = "none"
    /\ called' = "parseCSV"
    /\ ret' = parseCSV(arg)
    /\ UNCHANGED <<arg, envVars, loginVars, monthVars, payVars, uploadsVars, billsVars, rowVars, pageVars, runVars, dbVars, requests>>

NextCSV == CallParseCSV

SpecCSV == InitCSV /\ [][NextCSV]_vars

InitDetect ==
    /\ called = "none"
    /\ arg \in [description : Descriptions, amount : Amounts, bank_category : BankCategories]
    /\ ret = <<>>
    /\ FlowIdle

CallDetectTransactionType ==
    /\ called = "none"
    /\ called' = "detectTransactionType"
    /\ ret' = detectTransactionType(arg.description, arg.amount, arg.bank_category)
    /\ UNCHANGED <<arg, envVars, loginVars, monthVars, payVars, uploadsVars, billsVars, rowVars, pageVars, runVars, dbVars, requests>>

NextDetect == CallDetectTransactionType

SpecDetect == InitDetect /\ [][NextDetect]_vars

(***************************************************************************)
(* Inputs of the upload: statement files and the bills the backend holds   *)
(***************************************************************************)
Header == <<"A", "c", "c", "t", ",", "I", "d", ",", "D", "a", "t", "e", ",", "D", "e", "s", "c", ",", "C", "h", "k", ",", "C", "a", "t", ",", "T", "a", "g", ",", "A", "m", "t", ",", "B", "a", "l">>

\* rows of a statement: two recurring outflows of one merchant in different
\* letter case, an income row, a recurring outflow of a merchant whose name is
\* part of an existing bill's name, dated the first of a month, a recurring
\* inflow (a refund), and a recurring outflow whose description the first
\* merchant pattern rewrites and whose date column holds no date
RowPalette ==
    { [date |-> <<"3", "/", "5", "/", "2", "0", "2", "4">>, description |-> <<"N", "E", "T", "F", "L", "I", "X">>, category |-> <<"O", "n", "l", "i", "n", "e", " ", "S", "e", "r", "v", "i", "c", "e", "s">>, amount |-> <<"-", "1", "5", ".", "9", "9">>],
      [date |-> <<"4", "/", "5", "/", "2", "4">>, description |-> <<"N", "e", "t", "f", "l", "i", "x">>, category |-> <<"O", "n", "l", "i", "n", "e", " ", "S", "e", "r", "v", "i", "c", "e", "s">>, amount |-> <<"-", "$", "1", "5", ".", "9", "9">>],
      [date |-> <<"3", "/", "1", "/", "2", "0", "2", "4">>, description |-> <<"P", "A", "Y", "R", "O", "L", "L", " ", "A", "C", "M", "E">>, category |-> <<"P", "a", "y", "c", "h", "e", "c", "k", "s", "/", "S", "a", "l", "a", "r", "y">>, amount |-> <<"2", "5", "0", "0", ".", "0", "0">>],
      [date |-> <<"3", "/", "1", "/", "2", "0", "2", "4">>, description |-> <<"A", "M", "A", "Z", "O", "N", " ", "P", "R", "I", "M", "E">>, category |-> <<"O", "n", "l", "i", "n", "e", " ", "S", "e", "r", "v", "i", "c", "e", "s">>, amount |-> <<"-", "1", "4", ".", "9", "9">>],
      [date |-> <<"3", "/", "9", "/", "2", "0", "2", "4">>, description |-> <<"N", "E", "T", "F", "L", "I", "X">>, category |-> <<"O", "n", "l", "i", "n", "e", " ", "S", "e", "r", "v", "i", "c", "e", "s">>, amount |-> <<"1", "5", ".", "9", "9">>],
      [date |-> <<"P", "e", "n", "d", "i", "n", "g">>, description |-> <<"P", "O", "S", " ", "N", "E", "T", "F", "L", "I", "X", ".", "C", "O", "M", " ", "1", "2", "3">>, category |-> <<"O", "n", "l", "i", "n", "e", " ", "S", "e", "r", "v", "i", "c", "e", "s">>, amount |-> <<"-", "1", "5", ".", "9", "9">>] }

csvRow(r) ==
    join(<< <<"c", "h", "k">>, <<"t", "1">>, r.date, r.description, <<>>, r.category, <<>>,
            r.amount, <<"1", "0", "0", ".", "0", "0">> >>, ",")

\* the statement files of up to MaxRows rows from a palette
FilesOf(palette) ==
    {join(<<Header>> \o [k \in 1..Len(rs) |-> csvRow(rs[k])], "\n") :
        rs \in SeqsUpTo(palette, MaxRows)}

\* files without a usable row: the empty file, and one whose only data row has
\* three fields
NoRowFiles == {<<>>, join(<<Header, <<"c", "h", "k", ",", "t", "1", ",", "3", "/", "5", "/", "2", "0", "2", "4">>>>, "\n")}

Files == FilesOf(RowPalette) \cup NoRowFiles

\* what the backend holds before the upload: nothing; two bills that both match
\* "Amazon Prime"; an inactive match ahead of an active non-match, an active
\* match, and a bill that matches "Netflix"
InitialBills ==
    { <<>>,
      << [id |-> 1, name |-> <<"A", "m", "a", "z", "o", "n", " ", "P", "r", "i", "m", "e", " ", "V", "i", "d", "e", "o">>, due_day |-> <<1>>, amount_expected |-> Zero, is_variable |-> FALSE, autopay |-> FALSE, active |-> TRUE],
         [id |-> 2, name |-> <<"A", "m", "a", "z", "o", "n">>, due_day |-> <<1>>, amount_expected |-> Zero, is_variable |-> FALSE, autopay |-> FALSE, active |-> TRUE] >>,
      << [id |-> 1, name |-> <<"A", "m", "a", "z", "o", "n">>, due_day |-> <<1>>, amount_expected |-> Zero, is_variable |-> FALSE, autopay |-> FALSE, active |-> FALSE],
         [id |-> 2, name |-> <<"H", "u", "l", "u">>, due_day |-> <<1>>, amount_expected |-> Zero, is_variable |-> FALSE, autopay |-> FALSE, active |-> TRUE],
         [id |-> 3, name |-> <<"A", "m", "a", "z", "o", "n">>, due_day |-> <<1>>, amount_expected |-> Zero, is_variable |-> FALSE, autopay |-> FALSE, active |-> TRUE],
         [id |-> 4, name |-> <<"n", "e", "t", "f", "l", "i", "x">>, due_day |-> <<1>>, amount_expected |-> Zero, is_variable |-> FALSE, autopay |-> FALSE, active |-> TRUE] >> }

\* two of the three upload cards of the page (checking, savings, high_yield)
AccountTypes == {"checking", "savings"}

(***************************************************************************)
(* The backend client, part_001 (xanoFetch) and endpoints.ts.  A request   *)
(* either resolves with the typed value or rejects with the Error xanoFetch*)
(* throws, whose message is never empty (part_001:50-53).  A response      *)
(* without a JSON body makes the caller's next property access throw, and  *)
(* is covered by the rejecting outcome.                                    *)
(***************************************************************************)
XanoError(op) ==
    CASE op = "createImport" -> "Xano request failed on /imports"
      [] op = "createTransactionsRaw" -> "Xano request failed on /transactions-raw"
      [] op = "listBills" -> "Xano request failed on /bills"
      [] op = "createBill" -> "Xano request failed on /bills"
      [] op = "createTransactionsBulk" -> "Xano request failed on /transactions/bulk"
      [] op = "listTransactions" -> "Xano request failed on /transactions"
      [] op = "markTransactionRecurring" -> "Xano request failed on /transactions/id"
      [] op = "updateBill" -> "Xano request failed on /bills/id"
      [] op = "upsertBillPayment" -> "Xano request failed on /bill-payments/upsert"
      [] op = "listBillPayments" -> "Xano request failed on /bill-payments"

\* the request is sent: it joins the log as pending
Issue(reqs, op, r) == Append(reqs, [op |-> op, row |-> r, status |-> "pending"])

\* the requests of the run whose locals the page holds: those no other run sent
Mine == DOMAIN requests \ UNION {suspended[i].owned : i \in DOMAIN suspended}

Pending(op) ==
    {k \in Mine : requests[k].op = op /\ requests[k].status = "pending"}

Settle(k, status) == [requests EXCEPT ![k].status = status]

\* mutant: the filter keeps the bills that are not active
activeOnly_keepsInactive(billList) == SelectSeq(billList, LAMBDA b : b.active = FALSE)

\* currentBills.filter((b) => b.active !== false), part_003:676 and 613
activeOnly(billList) == SelectSeq(billList, LAMBDA b : b.active # FALSE)

(***************************************************************************)
(* TransactionsPage, part_003:577-761                                      *)
(***************************************************************************)
\* the mount effect, part_003:593-601, with a session in localStorage
Mount ==
    /\ userId = ""
    /\ userId' = "1"
    /\ UNCHANGED <<envVars, loginVars, monthVars, payVars, uploadsVars, billsVars, rowVars, pureVars, error, loading, transactions, bills, uploadingAccount,
                   uploadProgress, resetTimer, runVars, dbVars, requests>>

\* handleFileUpload up to its first await, part_003:625-633
StartUpload(account, file) ==
    /\ pc = "idle"
    /\ userId # ""
    /\ uploadingAccount' = account
    /\ uploadProgress' = Progress("Reading file...", 0, 0, <<>>)
    /\ error' = ""
    /\ accountType' = account
    /\ fileText' = file
    /\ pc' = "reading"
    /\ UNCHANGED <<envVars, loginVars, monthVars, payVars, uploadsVars, billsVars, rowVars, pureVars, userId, loading, transactions, bills, resetTimer, parsed,
                   importRecord, activeBills, createdBillsByMerchant, txnData, row,
                   thrown, dbVars, requests>>

\* mutant: the catch block leaves the indicator and the progress text in place
Catch_keepsIndicator(message) ==
    /\ thrown' = message
    /\ error' = IF message # "" THEN message ELSE "Failed to import transactions"
    /\ uploadingAccount' = uploadingAccount
    /\ uploadProgress' = uploadProgress
    /\ pc' = "failed"

\* the catch block, part_003:756-760
Catch(message) ==
    /\ thrown' = message
    /\ error' = IF message # "" THEN message ELSE "Failed to import transactions"
    /\ uploadingAccount' = "null"
    /\ uploadProgress' = NoProgress
    /\ pc' = "failed"

\* file.text() resolved: parse, and create the import record, part_003:634-650
FileTextOk ==
    /\ pc = "reading"
    /\ LET p == parseCSV(fileText) IN
       /\ parsed' = p
       /\ IF Len(p) = 0
          THEN /\ Catch("No valid transactions found in CSV")
               /\ UNCHANGED requests
          ELSE /\ uploadProgress' = Progress("Found n transactions. Creating import...",
                                             Len(p), 0, <<>>)
               /\ requests' = Issue(requests, "createImport", 0)
               /\ pc' = "createImport"
               /\ UNCHANGED <<thrown, error, uploadingAccount>>
    /\ UNCHANGED <<envVars, loginVars, monthVars, payVars, uploadsVars, billsVars, rowVars, pureVars, userId, loading, transactions, bills, resetTimer, accountType,
                   fileText, importRecord, activeBills, createdBillsByMerchant, txnData,
                   row, dbVars>>

\* file.text() rejected
FileTextFail ==
    /\ pc = "reading"
    /\ Catch("The file could not be read")
    /\ UNCHANGED <<envVars, loginVars, monthVars, payVars, uploadsVars, billsVars, rowVars, pureVars, userId, loading, transactions, bills, resetTimer, accountType,
                   fileText, parsed, importRecord, activeBills, createdBillsByMerchant,
                   txnData, row, dbVars, requests>>

\* a request of the awaited chain rejected: createImport, createTransactionsRaw,
\* listBills or createTransactionsBulk
AwaitedRequestFails(op) ==
    /\ pc = op
    /\ op \in {"createImport", "createTransactionsRaw", "listBills", "createTransactionsBulk"}
    /\ \E k \in Pending(op) : requests' = Settle(k, "failed")
    /\ Catch(XanoError(op))
    /\ UNCHANGED <<envVars, loginVars, monthVars, payVars, uploadsVars, billsVars, rowVars, pureVars, userId, loading, transactions, bills, resetTimer, accountType,
                   fileText, parsed, importRecord, activeBills, createdBillsByMerchant,
                   txnData, row, dbVars>>

\* createImport resolved: store the raw rows, part_003:644-670
CreateImportOk ==
    /\ pc = "createImport"
    /\ \E k \in Pending("createImport") :
       LET rec == [id |-> Len(dbImports) + 1, account_type |-> accountType,
                   status |-> "processing", record_count |-> Len(parsed)]
       IN  /\ dbImports' = Append(dbImports, rec)
           /\ importRecord' = rec
           /\ uploadProgress' = Progress("Storing raw transactions...", 0, 0, <<>>)
           /\ requests' = Issue(Settle(k, "ok"), "createTransactionsRaw", 0)
           /\ pc' = "createTransactionsRaw"
    /\ UNCHANGED <<envVars, loginVars, monthVars, payVars, uploadsVars, billsVars, rowVars, pureVars, userId, error, loading, transactions, bills, uploadingAccount,
                   resetTimer, accountType, fileText, parsed, activeBills,
                   createdBillsByMerchant, txnData, row, thrown, dbBills, dbRaw,
                   dbTransactions>>

\* createTransactionsRaw resolved: fetch the bills, part_003:670-675
CreateTransactionsRawOk ==
    /\ pc = "createTransactionsRaw"
    /\ \E k \in Pending("createTransactionsRaw") :
           requests' = Issue(Settle(k, "ok"), "listBills", 0)
    /\ dbRaw' = dbRaw \o [i \in 1..Len(parsed) |->
                    [import_id |-> importRecord.id, date |-> parsed[i].date,
                     description |-> parsed[i].description, amount |-> parsed[i].amount]]
    /\ uploadProgress' = Progress("Processing transactions and matching bills...", 0, 0, <<>>)
    /\ pc' = "listBills"
    /\ UNCHANGED <<envVars, loginVars, monthVars, payVars, uploadsVars, billsVars, rowVars, pureVars, userId, error, loading, transactions, bills, uploadingAccount,
                   resetTimer, accountType, fileText, parsed, importRecord, activeBills,
                   createdBillsByMerchant, txnData, row, thrown, dbBills, dbImports,
                   dbTransactions>>

\* listBills resolved: the for-loop starts, part_003:675-684
ListBillsOk ==
    /\ pc = "listBills"
    /\ \E k \in Pending("listBills") : requests' = Settle(k, "ok")
    /\ activeBills' = activeOnly(dbBills)
    /\ createdBillsByMerchant' = <<>>
    /\ txnData' = <<>>
    /\ row' = 1
    /\ pc' = "rows"
    /\ UNCHANGED <<envVars, loginVars, monthVars, payVars, uploadsVars, billsVars, rowVars, pureVars, pageVars, accountType, fileText, parsed, importRecord, thrown,
                   dbVars>>

\* the element pushed to txnData, part_003:728-742
txnOf(p, txnType, merchant, billId) ==
    [date |-> p.date, merchant |-> merchant, description |-> p.description,
     amount |-> p.amount, import_id |-> importRecord.id,
     is_recurring |-> (txnType = "recurring"), bill_id |-> billId,
     transaction_type |-> txnType]

\* txnData.push(...) and the loop's step: the next row, or after the last row
\* the bulk save, part_003:728-746
PushAndContinue(txn, reqs, progress) ==
    /\ txnData' = Append(txnData, txn)
    /\ IF row < Len(parsed)
       THEN /\ row' = row + 1
            /\ pc' = "rows"
            /\ uploadProgress' = progress
            /\ requests' = reqs
       ELSE /\ row' = row
            /\ pc' = "createTransactionsBulk"
            /\ uploadProgress' = Progress("Saving transactions...", 0, 0, <<>>)
            /\ requests' = Issue(reqs, "createTransactionsBulk", 0)

\* mutant: the amount's sign is not looked at
needsBill_anyAmount(txnType, p) == txnType = "recurring"

\* the condition under which a row is matched to a bill, part_003:690
needsBill(txnType, p) == txnType = "recurring" /\ p.amount.m < 0

\* mutant: createBill is sent but not awaited, the loop goes on to the next row
ProcessRow_doesNotAwait ==
    /\ pc = "rows"
    /\ LET p == parsed[row]
           txnType == detectTransactionType(p.description, p.amount, p.bank_category)
           merchant == extractMerchant(p.description)
           matchedBill == findMatchingBill(merchant, activeBills)
       IN  IF needsBill(txnType, p) /\ matchedBill = <<>>
           THEN PushAndContinue(txnOf(p, txnType, merchant, NoBill),
                                Issue(requests, "createBill", row), uploadProgress)
           ELSE PushAndContinue(
                    txnOf(p, txnType, merchant,
                          IF matchedBill = <<>> THEN NoBill ELSE <<matchedBill[1].id>>),
                    requests, uploadProgress)
    /\ UNCHANGED <<envVars, loginVars, monthVars, payVars, uploadsVars, billsVars, rowVars, pureVars, userId, error, loading, transactions, bills, uploadingAccount,
                   resetTimer, accountType, fileText, parsed, importRecord, activeBills,
                   createdBillsByMerchant, thrown, dbVars>>

\* one iteration of the for-loop up to its push or to its await, part_003:684-707
ProcessRow ==
    /\ pc = "rows"
    /\ LET p == parsed[row]
           txnType == detectTransactionType(p.description, p.amount, p.bank_category)
           merchant == extractMerchant(p.description)
           merchantKey == toLowerCase(merchant)
           matchedBill == findMatchingBill(merchant, activeBills)
       IN  IF needsBill(txnType, p)
           THEN IF merchantKey \in DOMAIN createdBillsByMerchant
                THEN PushAndContinue(
                         txnOf(p, txnType, merchant, <<createdBillsByMerchant[merchantKey].id>>),
                         requests, uploadProgress)
                ELSE IF matchedBill # <<>>
                THEN PushAndContinue(txnOf(p, txnType, merchant, <<matchedBill[1].id>>),
                                     requests, uploadProgress)
                ELSE /\ uploadProgress' = Progress("Creating bill for merchant...", 0, 0, merchant)
                     /\ requests' = Issue(requests, "createBill", row)
                     /\ pc' = "createBill"
                     /\ UNCHANGED <<txnData, row>>
           ELSE PushAndContinue(txnOf(p, txnType, merchant, NoBill), requests, uploadProgress)
    /\ UNCHANGED <<envVars, loginVars, monthVars, payVars, uploadsVars, billsVars, rowVars, pureVars, userId, error, loading, transactions, bills, uploadingAccount,
                   resetTimer, accountType, fileText, parsed, importRecord, activeBills,
                   createdBillsByMerchant, thrown, dbVars>>

\* the browsers the page runs in: one west of Greenwich (New York in winter)
\* and one east of it (Tokyo)
TimeZoneOffsets == {-5, 9}

isLeapYear(y) == (y % 4 = 0 /\ y % 100 # 0) \/ y % 400 = 0

daysInMonth(y, mo) ==
    IF mo = 2 THEN (IF isLeapYear(y) THEN 29 ELSE 28)
    ELSE IF mo \in {4, 6, 9, 11} THEN 30 ELSE 31

\* new Date(s) for a date-only string: the form YYYY-MM-DD of a calendar day
\* denotes midnight UTC of that day (ECMAScript date-time string format); a
\* string with no digit is an Invalid Date.  Other strings are read by
\* engine-specific rules and are not drawn as inputs.
dateOf(s) ==
    IF /\ Len(s) = 10
       /\ s[5] = "-" /\ s[8] = "-"
       /\ \A i \in {1, 2, 3, 4, 6, 7, 9, 10} : IsDigit(s[i])
       /\ digitsToNat(SubSeq(s, 6, 7)) \in 1..12
       /\ digitsToNat(SubSeq(s, 9, 10)) \in
              1..daysInMonth(digitsToNat(SubSeq(s, 1, 4)), digitsToNat(SubSeq(s, 6, 7)))
    THEN [valid |-> TRUE, y |-> digitsToNat(SubSeq(s, 1, 4)),
          mo |-> digitsToNat(SubSeq(s, 6, 7)), d |-> digitsToNat(SubSeq(s, 9, 10)), h |-> 0]
    ELSE [valid |-> FALSE, y |-> 0, mo |-> 0, d |-> 0, h |-> 0]

\* Date.prototype.getDate: the day of the month in local time, NaN for an
\* Invalid Date.  Midnight UTC lies on the previous local day west of Greenwich.
getDate(date, offset) ==
    IF ~date.valid THEN NaN
    ELSE IF date.h + offset >= 0 THEN [nan |-> FALSE, m |-> date.d, e |-> 0]
    ELSE IF date.d > 1 THEN [nan |-> FALSE, m |-> date.d - 1, e |-> 0]
    ELSE IF date.mo > 1 THEN [nan |-> FALSE, m |-> daysInMonth(date.y, date.mo - 1), e |-> 0]
    ELSE [nan |-> FALSE, m |-> 31, e |-> 0]

\* JSON.stringify of a number in a request body: NaN is written as null
\* (<<>>), an integer as itself
jsonNumber(x) == IF x.nan THEN <<>> ELSE <<x.m>>

\* mutant: the day is read in UTC
dueDayOf_utc(dateStr, offset) == jsonNumber(getDate(dateOf(dateStr), 0))

\* due_day: new Date(p.date).getDate() as sent to the backend, part_003:710
dueDayOf(dateStr, offset) == jsonNumber(getDate(dateOf(dateStr), offset))

\* Math.abs
abs(x) == [x EXCEPT !.m = IF x.m < 0 THEN -x.m ELSE x.m]

\* mutant: the new bill is not remembered
trackNewBill_forgets(created, known, merchantKey, newBill) ==
    [created |-> created, known |-> known]

\* createdBillsByMerchant.set(merchantKey, newBill); activeBills.push(newBill),
\* part_003:717-719
trackNewBill(created, known, merchantKey, newBill) ==
    [created |-> [key \in DOMAIN created \cup {merchantKey} |->
                     IF key = merchantKey THEN newBill ELSE created[key]],
     known |-> Append(known, newBill)]

\* createBill resolved with the new bill, part_003:707-719
CreateBillOk ==
    /\ pc = "createBill"
    /\ \E k \in Pending("createBill") :
       LET p == parsed[row]
           txnType == detectTransactionType(p.description, p.amount, p.bank_category)
           merchant == extractMerchant(p.description)
           merchantKey == toLowerCase(merchant)
           newBill == [id |-> Len(dbBills) + 1, name |-> merchant,
                       due_day |-> dueDayOf(p.date, timeZoneOffset),
                       amount_expected |-> abs(p.amount), is_variable |-> FALSE,
                       autopay |-> FALSE, active |-> TRUE]
       IN  /\ dbBills' = Append(dbBills, newBill)
           /\ createdBillsByMerchant' =
                  trackNewBill(createdBillsByMerchant, activeBills, merchantKey, newBill).created
           /\ activeBills' =
                  trackNewBill(createdBillsByMerchant, activeBills, merchantKey, newBill).known
           /\ PushAndContinue(txnOf(p, txnType, merchant, <<newBill.id>>),
                              Settle(k, "ok"), uploadProgress)
    /\ UNCHANGED <<envVars, loginVars, monthVars, payVars, uploadsVars, billsVars, rowVars, pureVars, userId, error, loading, transactions, bills, uploadingAccount,
                   resetTimer, accountType, fileText, parsed, importRecord, thrown,
                   dbImports, dbRaw, dbTransactions>>

\* mutant: a rejected createBill reaches the outer catch block
CreateBillFail_aborts ==
    /\ pc = "createBill"
    /\ \E k \in Pending("createBill") : requests' = Settle(k, "failed")
    /\ Catch(XanoError("createBill"))
    /\ UNCHANGED <<envVars, loginVars, monthVars, payVars, uploadsVars, billsVars, rowVars, pureVars, userId, loading, transactions, bills, resetTimer, accountType,
                   fileText, parsed, importRecord, activeBills, createdBillsByMerchant,
                   txnData, row, dbVars>>

\* createBill rejected: logged, the row goes on without a bill, part_003:720-723
CreateBillFail ==
    /\ pc = "createBill"
    /\ \E k \in Pending("createBill") :
       LET p == parsed[row]
           txnType == detectTransactionType(p.description, p.amount, p.bank_category)
           merchant == extractMerchant(p.description)
       IN  PushAndContinue(txnOf(p, txnType, merchant, NoBill), Settle(k, "failed"),
                           uploadProgress)
    /\ UNCHANGED <<envVars, loginVars, monthVars, payVars, uploadsVars, billsVars, rowVars, pureVars, userId, error, loading, transactions, bills, uploadingAccount,
                   resetTimer, accountType, fileText, parsed, importRecord, activeBills,
                   createdBillsByMerchant, thrown, dbVars>>

\* mutant: the transactions linked to a bill are counted instead of the new bills
billsCreated_countsLinked(created, data) ==
    Cardinality({i \in DOMAIN data : data[i].bill_id # NoBill})

\* const billsCreated = createdBillsByMerchant.size, part_003:748
billsCreated(created, data) == Cardinality(DOMAIN created)

\* mutant: the upload closes its import once the transactions are saved
CreateTransactionsBulkOk_completesImport ==
    /\ pc = "createTransactionsBulk"
    /\ \E k \in Pending("createTransactionsBulk") :
           requests' = Issue(Issue(Issue(Settle(k, "ok"), "updateImport", 0),
                                   "listTransactions", 0), "listBills", 0)
    /\ dbTransactions' = dbTransactions \o txnData
    /\ dbImports' = [dbImports EXCEPT ![importRecord.id].status = "completed"]
    /\ uploadProgress' = Progress("Imported n transactions! Created k new bills.",
                                  Len(parsed), Cardinality(DOMAIN createdBillsByMerchant), <<>>)
    /\ loading' = TRUE
    /\ error' = ""
    /\ pc' = "refresh"
    /\ UNCHANGED <<envVars, loginVars, monthVars, payVars, uploadsVars, billsVars, rowVars, pureVars, userId, transactions, bills, uploadingAccount, resetTimer,
                   accountType, fileText, parsed, importRecord, activeBills,
                   createdBillsByMerchant, txnData, row, thrown, dbBills, dbRaw>>

\* createTransactionsBulk resolved: report, and refresh() up to its await,
\* part_003:746-750 and 603-611
CreateTransactionsBulkOk ==
    /\ pc = "createTransactionsBulk"
    /\ \E k \in Pending("createTransactionsBulk") :
           requests' = Issue(Issue(Settle(k, "ok"), "listTransactions", 0), "listBills", 0)
    /\ dbTransactions' = dbTransactions \o txnData
    /\ uploadProgress' = Progress("Imported n transactions! Created k new bills.",
                                  Len(parsed),
                                  billsCreated(createdBillsByMerchant, txnData), <<>>)
    /\ loading' = TRUE
    /\ error' = ""
    /\ pc' = "refresh"
    /\ UNCHANGED <<envVars, loginVars, monthVars, payVars, uploadsVars, billsVars, rowVars, pureVars, userId, transactions, bills, uploadingAccount, resetTimer,
                   accountType, fileText, parsed, importRecord, activeBills,
                   createdBillsByMerchant, txnData, row, thrown, dbBills, dbImports, dbRaw>>

\* a request of refresh's Promise.all resolved; with both resolved refresh stores
\* the lists and returns, and the upload schedules the reset, part_003:608-618, 752
RefreshRequestOk(op) ==
    /\ pc = "refresh"
    /\ op \in {"listTransactions", "listBills"}
    /\ \E k \in Pending(op) :
       /\ requests' = Settle(k, "ok")
       /\ IF \A j \in Mine : j # k => requests[j].status # "pending"
          THEN /\ transactions' = dbTransactions
               /\ bills' = activeOnly(dbBills)
               /\ loading' = FALSE
               /\ resetTimer' = TRUE
               /\ pc' = "success"
          ELSE UNCHANGED <<transactions, bills, loading, resetTimer, pc>>
    /\ UNCHANGED <<envVars, loginVars, monthVars, payVars, uploadsVars, billsVars, rowVars, pureVars, userId, error, uploadingAccount, uploadProgress, accountType,
                   fileText, parsed, importRecord, activeBills, createdBillsByMerchant,
                   txnData, row, thrown, dbVars>>

\* a request of refresh's Promise.all rejected: refresh shows the error and
\* returns (it does not rethrow), part_003:614-618, 752
RefreshRequestFails(op) ==
    /\ pc = "refresh"
    /\ op \in {"listTransactions", "listBills"}
    /\ \E k \in Pending(op) : requests' = Settle(k, "failed")
    /\ error' = XanoError(op)
    /\ loading' = FALSE
    /\ resetTimer' = TRUE
    /\ pc' = "success"
    /\ UNCHANGED <<envVars, loginVars, monthVars, payVars, uploadsVars, billsVars, rowVars, pureVars, userId, transactions, bills, uploadingAccount, uploadProgress,
                   accountType, fileText, parsed, importRecord, activeBills,
                   createdBillsByMerchant, txnData, row, thrown, dbVars>>

\* the other request of a rejected Promise.all settles: nobody reads it
IgnoredResponse ==
    /\ pc = "success"
    /\ \E k \in Mine :
       /\ requests[k].status = "pending"
       /\ \E st \in {"ok", "failed"} : requests' = Settle(k, st)
    /\ UNCHANGED <<envVars, loginVars, monthVars, payVars, uploadsVars, billsVars, rowVars, pureVars, pageVars, runVars, dbVars>>

\* the timeout callback, part_003:752-755
ResetTimerFires ==
    /\ resetTimer
    /\ resetTimer' = FALSE
    /\ uploadingAccount' = "null"
    /\ uploadProgress' = NoProgress
    /\ UNCHANGED <<envVars, loginVars, monthVars, payVars, uploadsVars, billsVars, rowVars, pureVars, userId, error, loading, transactions, bills, runVars, dbVars,
                   requests>>

Init ==
    /\ called = "none"
    /\ arg = <<>>
    /\ ret = <<>>
    /\ PageIdle
    /\ month = MonthAtOpen
    /\ EmptyTables
    /\ dbBills \in InitialBills
    /\ timeZoneOffset \in TimeZoneOffsets
    /\ nullInPatch = "ignored"

\* the steps of a started upload
UploadSteps ==
    \/ FileTextOk
    \/ FileTextFail
    \/ \E op \in {"createImport", "createTransactionsRaw", "listBills",
                  "createTransactionsBulk"} : AwaitedRequestFails(op)
    \/ CreateImportOk
    \/ CreateTransactionsRawOk
    \/ ListBillsOk
    \/ ProcessRow
    \/ CreateBillOk
    \/ CreateBillFail
    \/ CreateTransactionsBulkOk
    \/ \E op \in {"listTransactions", "listBills"} : RefreshRequestOk(op)
    \/ \E op \in {"listTransactions", "listBills"} : RefreshRequestFails(op)
    \/ IgnoredResponse
    \/ ResetTimerFires

Next ==
    \/ Mount
    \/ \E account \in AccountTypes, file \in Files : StartUpload(account, file)
    \/ UploadSteps

Spec == Init /\ [][Next]_vars

(***************************************************************************)
(* Claims about the parsers                                                *)
(***************************************************************************)
\* the k-th smallest element of a finite set of integers
KthOf(S, k) == CHOOSE i \in S : Cardinality({j \in S : j <= i}) = k

QuotesBefore(line, i) == Cardinality({j \in 1..(i - 1) : line[j] = "\""})

\* the positions of the commas of a line that lie outside double-quoted spans
OutsideCommas(line) ==
    {i \in 1..Len(line) : line[i] = "," /\ QuotesBefore(line, i) % 2 = 0}

\* the text between the (k-1)-th and the k-th outside comma, quotes removed, trimmed
FieldBetweenCommas(line, k) ==
    LET oc == OutsideCommas(line)
        first == IF k = 1 THEN 1 ELSE KthOf(oc, k - 1) + 1
        last == IF k = Cardinality(oc) + 1 THEN Len(line) ELSE KthOf(oc, k) - 1
    IN  trim(SelectSeq(SubSeq(line, first, last), LAMBDA c : c # "\""))

\* C10: parseCSVLine splits a line at exactly the commas outside double-quoted
\* spans (every '"' toggles quote mode and is removed) and trims each field: the
\* number of fields is one plus the number of outside commas, each field is the
\* text between two consecutive outside commas without its quotes, a comma inside
\* quotes stays in its field, and after an unbalanced quote no further split occurs.
C10_LineSplitsAtOutsideCommas ==
    called = "parseCSVLine" =>
        /\ Len(ret) = Cardinality(OutsideCommas(arg)) + 1
        /\ \A k \in 1..Len(ret) : ret[k] = FieldBetweenCommas(arg, k)
        /\ \A k \in 1..Len(ret) : ~includes(ret[k], <<"\"">>)
        /\ QuotesBefore(arg, Len(arg) + 1) % 2 = 1 =>
               \A i \in OutsideCommas(arg) :
                   \E j \in (i + 1)..Len(arg) : arg[j] = "\""

\* C10 witness: an unbalanced quote after one outside comma; the comma after the
\* quote stays in the second field
C10_Witness ==
    /\ called = "parseCSVLine"
    /\ arg = <<"a", ",", "\"", ",", "a">>
    /\ ret = << <<"a">>, <<",", "a">> >>

\* the raw lines of a text, and which of them are not blank
RawLines(text) == split(text, "\n")
NonBlank(text) == {i \in 1..Len(RawLines(text)) : trim(RawLines(text)[i]) # <<>>}
\* the data lines: every non-blank line after the first non-blank one (the header)
DataLines(text) ==
    IF NonBlank(text) = {} THEN {} ELSE NonBlank(text) \ {KthOf(NonBlank(text), 1)}
Malformed(text) ==
    {i \in DataLines(text) : Len(parseCSVLine(RawLines(text)[i])) < 9}

\* C9: parseCSV skips the header line and returns exactly one ParsedTransaction,
\* in file order, for each remaining non-blank line that splits into at least 9
\* fields; each line with fewer than 9 fields lowers the count by exactly one;
\* empty or header-only input yields the empty sequence.
C9_OneTransactionPerWellFormedLine ==
    called = "parseCSV" =>
        LET good == DataLines(arg) \ Malformed(arg) IN
        /\ Len(ret) = Cardinality(DataLines(arg)) - Cardinality(Malformed(arg))
        /\ \A k \in 1..Len(ret) :
               LET fields == parseCSVLine(RawLines(arg)[KthOf(good, k)]) IN
               /\ ret[k].bank_account_id = fields[1]
               /\ ret[k].bank_transaction_id = fields[2]
               /\ ret[k].description = fields[4]
               /\ ret[k].bank_category = fields[6]
        /\ Cardinality(NonBlank(arg)) <= 1 => ret = <<>>

\* C9 witness: a header, a blank line, a row of fewer than 9 fields and a
\* well-formed row give one transaction
C9_Witness ==
    /\ called = "parseCSV"
    /\ Len(RawLines(arg)) > Cardinality(NonBlank(arg))
    /\ Cardinality(Malformed(arg)) = 1
    /\ Len(ret) = 1

(***************************************************************************)
(* Claims about the classifier                                             *)
(***************************************************************************)
\* description contains the lower-case word w, compared without regard to case
ContainsIgnoringCase(description, w) ==
    \E p \in 1..Len(description) :
        /\ p + Len(w) - 1 <= Len(description)
        /\ \A j \in 1..Len(w) : toLowerChar(description[p + j - 1]) = w[j]

\* the rules of the classifier as the specification lists them (section 4.5)
IncomeRule(description, category) ==
    \/ \E w \in { <<"p", "a", "y", "r", "o", "l", "l">>, <<"d", "e", "p", "o", "s", "i", "t", " ", "a", "c", "h">>, <<"d", "i", "v", "i", "d", "e", "n", "d">> } :
           ContainsIgnoringCase(description, w)
    \/ category \in { <<"P", "a", "y", "c", "h", "e", "c", "k", "s", "/", "S", "a", "l", "a", "r", "y">>, <<"I", "n", "v", "e", "s", "t", "m", "e", "n", "t", " ", "I", "n", "c", "o", "m", "e">> }

TransferRule(description, category) ==
    \/ ContainsIgnoringCase(description, <<"t", "r", "a", "n", "s", "f", "e", "r">>)
    \/ category = <<"T", "r", "a", "n", "s", "f", "e", "r", "s">>

RecurringRule(description, category) ==
    \/ \E w \in { <<"a", "p", "p", "l", "e", ".", "c", "o", "m", "/", "b", "i", "l", "l">>,
                  <<"g", "o", "d", "a", "d", "d", "y">>,
                  <<"g", "u", "a", "r", "d", "i", "a", "n", " ", "l", "i", "f", "e">>,
                  <<"f", "i", "r", "s", "t", "m", "a", "r", "k">>,
                  <<"m", "r", ".", "c", "o", "o", "p", "e", "r">>,
                  <<"n", "s", "m", " ", "d", "b", "a", "m", "r">>,
                  <<"e", "z", " ", "p", "a", "s", "s">> } :
           ContainsIgnoringCase(description, w)
    \/ category \in { <<"I", "n", "s", "u", "r", "a", "n", "c", "e">>,
                      <<"M", "o", "r", "t", "g", "a", "g", "e", "s">>,
                      <<"L", "o", "a", "n", "s">>,
                      <<"O", "n", "l", "i", "n", "e", " ", "S", "e", "r", "v", "i", "c", "e", "s">> }

\* C8: detectTransactionType returns exactly one of income, transfer, recurring,
\* misc, chosen by the first matching rule in that order, from the description
\* (case-insensitive substrings) and the bank category (exact equality) alone:
\* the amount never changes the result, and a description containing "payroll"
\* is income whatever other rule it matches.
C8_FirstMatchingRuleWins ==
    called = "detectTransactionType" =>
        LET d == arg.description
            c == arg.bank_category
        IN  /\ ret \in {"income", "transfer", "recurring", "misc"}
            /\ ret = "income" <=> IncomeRule(d, c)
            /\ ret = "transfer" <=> ~IncomeRule(d, c) /\ TransferRule(d, c)
            /\ ret = "recurring" <=>
                   ~IncomeRule(d, c) /\ ~TransferRule(d, c) /\ RecurringRule(d, c)
            /\ \A a \in Amounts : detectTransactionType(d, a, c) = ret
            /\ ContainsIgnoringCase(d, <<"p", "a", "y", "r", "o", "l", "l">>) => ret = "income"

\* C8 witness: a negative amount whose description names payroll and a recurring
\* merchant, under a transfer category, is income
C8_Witness ==
    /\ called = "detectTransactionType"
    /\ arg.description = <<"G", "o", "D", "a", "d", "d", "y", " ", "P", "A", "Y", "R", "O", "L", "L">>
    /\ arg.bank_category = catTransfers
    /\ arg.amount.m < 0
    /\ ret = "income"

(***************************************************************************)
(* Claims about one upload (specification Spec)                            *)
(***************************************************************************)
\* the type and the merchant label of every row a statement is assembled from,
\* computed once
PaletteTypes ==
    [k \in {<<r.description, parseBankAmount(r.amount), r.category>> : r \in RowPalette} |->
        detectTransactionType(k[1], k[2], k[3])]
PaletteMerchants == [d \in {r.description : r \in RowPalette} |-> extractMerchant(d)]

\* what the loop computes for row i of the parsed file
RowType(i) ==
    LET k == <<parsed[i].description, parsed[i].amount, parsed[i].bank_category>>
    IN  IF k \in DOMAIN PaletteTypes THEN PaletteTypes[k]
        ELSE detectTransactionType(k[1], k[2], k[3])
RowMerchant(i) ==
    IF parsed[i].description \in DOMAIN PaletteMerchants
    THEN PaletteMerchants[parsed[i].description]
    ELSE extractMerchant(parsed[i].description)

\* a, compared without regard to letter case, occurs in b
OccursIgnoringCase(a, b) ==
    \E p \in 0..(Len(b) - Len(a)) :
        \A j \in 1..Len(a) : toLowerChar(b[p + j]) = toLowerChar(a[j])

EqualIgnoringCase(a, b) == OccursIgnoringCase(a, b) /\ Len(a) = Len(b)

\* the bill's name contains, or is contained in, the merchant label
Containment(bill, merchant) ==
    OccursIgnoringCase(bill.name, merchant) \/ OccursIgnoringCase(merchant, bill.name)

\* a recurring outflow: the rows the bill matcher works on (section 4.6)
RecurringOutflow(i) == RowType(i) = "recurring" /\ parsed[i].amount.m < 0

\* rows whose transaction has been pushed to txnData
Pushed == 1..Len(txnData)

\* the createBill requests sent for row i, and for any row from i on
CreateCalls(i) ==
    {k \in DOMAIN requests : requests[k].op = "createBill" /\ requests[k].row = i}
CreatedFrom(i) ==
    {k \in DOMAIN requests : /\ requests[k].op = "createBill"
                             /\ requests[k].status = "ok"
                             /\ requests[k].row >= i}

\* the active-bills list as it was when row i was processed: the list without
\* the bills appended for row i and for later rows
KnownAt(i) == SubSeq(activeBills, 1, Len(activeBills) - Cardinality(CreatedFrom(i)))

\* the createBill requests sent for rows whose merchant label equals that of row i
\* ignoring case
CreateCallsForMerchantOf(i) ==
    {k \in DOMAIN requests :
        /\ requests[k].op = "createBill"
        /\ EqualIgnoringCase(RowMerchant(requests[k].row), RowMerchant(i))}

\* C1: within one upload, when createBill succeeds, two recurring outflow rows
\* whose merchant labels are equal ignoring case, with no active bill matching
\* when the first was processed, cause exactly one createBill call for that
\* merchant, and both saved transactions carry the id of the bill it created.
C1_OneBillPerMerchantInBatch ==
    \A i, j \in Pushed :
        ( /\ i < j
          /\ RecurringOutflow(i) /\ RecurringOutflow(j)
          /\ EqualIgnoringCase(RowMerchant(i), RowMerchant(j))
          /\ \A n \in 1..Len(KnownAt(i)) : ~Containment(KnownAt(i)[n], RowMerchant(i))
          /\ \A k \in CreateCallsForMerchantOf(i) : requests[k].status = "ok" )
        => /\ Cardinality(CreateCallsForMerchantOf(i)) = 1
           /\ CreateCalls(i) # {}
           /\ txnData[i].bill_id # NoBill
           /\ txnData[j].bill_id = txnData[i].bill_id
           /\ \E n \in 1..Len(dbBills) :
                  /\ txnData[i].bill_id = <<dbBills[n].id>>
                  /\ dbBills[n].name = RowMerchant(i)
                  /\ \A m \in 1..Len(dbBills) : dbBills[m].id = dbBills[n].id => m = n

\* C1 witness: "NETFLIX" then "Netflix" imported into an empty backend; one bill
\* was created and both transactions are linked to it
C1_Witness ==
    /\ pc = "success"
    /\ Len(txnData) = 2
    /\ RecurringOutflow(1) /\ RecurringOutflow(2)
    /\ RowMerchant(1) # RowMerchant(2)
    /\ EqualIgnoringCase(RowMerchant(1), RowMerchant(2))
    /\ Len(dbBills) = 1
    /\ txnData[1].bill_id = <<1>> /\ txnData[2].bill_id = <<1>>

\* the position in a bill list of the first bill that satisfies the containment
FirstContaining(billList, merchant) ==
    CHOOSE n \in 1..Len(billList) :
        /\ Containment(billList[n], merchant)
        /\ \A m \in 1..(n - 1) : ~Containment(billList[m], merchant)

\* the lower-cased merchant labels in the in-batch map when row i was processed
KeysAt(i) ==
    {toLowerCase(RowMerchant(requests[k].row)) :
        k \in {x \in DOMAIN requests : /\ requests[x].op = "createBill"
                                       /\ requests[x].status = "ok"
                                       /\ requests[x].row < i}}

\* C2: a recurring outflow row whose lower-cased merchant is not in the in-batch
\* map, while some bill of the active-bills list has a name that contains or is
\* contained in the merchant label (case-insensitively), is linked to the first
\* such bill in list order without a createBill call; and findMatchingBill
\* returns null exactly when no bill of the list satisfies that containment.
C2_FirstContainingBillWins ==
    /\ \A i \in Pushed :
           ( /\ RecurringOutflow(i)
             /\ toLowerCase(RowMerchant(i)) \notin KeysAt(i)
             /\ \E n \in 1..Len(KnownAt(i)) : Containment(KnownAt(i)[n], RowMerchant(i)) )
           => /\ txnData[i].bill_id =
                     <<KnownAt(i)[FirstContaining(KnownAt(i), RowMerchant(i))].id>>
              /\ CreateCalls(i) = {}
    /\ pc \in {"rows", "createBill"} =>
           \A i \in 1..Len(parsed) :
               findMatchingBill(RowMerchant(i), activeBills) = <<>>
                   <=> \A n \in 1..Len(activeBills) :
                           ~Containment(activeBills[n], RowMerchant(i))

\* C2 witness: "AMAZON PRIME" against the bills "Amazon Prime Video", "Amazon"
\* (both satisfy the containment) is linked to the first, and no bill is created
C2_Witness ==
    /\ pc = "success"
    /\ \E i \in Pushed :
           /\ RecurringOutflow(i)
           /\ Cardinality({n \in 1..Len(KnownAt(i)) :
                               Containment(KnownAt(i)[n], RowMerchant(i))}) = 2
           /\ txnData[i].bill_id = <<1>>
           /\ CreateCalls(i) = {}

\* C3: every row whose detected type is not "recurring" or whose amount is >= 0
\* is saved with bill_id null, and processing it sends no createBill request and
\* leaves the in-batch map and the in-memory active-bills list unchanged.
C3_OtherRowsAreNotMatched ==
    /\ [](\A i \in Pushed :
              ~RecurringOutflow(i) => txnData[i].bill_id = NoBill /\ CreateCalls(i) = {})
    /\ [][ (pc = "rows" /\ ~RecurringOutflow(row))
           => /\ Len(txnData') = Len(txnData) + 1
              /\ txnData'[row].bill_id = NoBill
              /\ createdBillsByMerchant' = createdBillsByMerchant
              /\ activeBills' = activeBills
              /\ \A k \in DOMAIN requests' : requests'[k].op = "createBill" => k \in DOMAIN requests
         ]_vars

\* C3 witness: a recurring inflow (a refund) and an income row were saved
\* without a bill while the backend holds a bill matching the refund's merchant
C3_Witness ==
    /\ pc = "success"
    /\ Len(txnData) = 2
    /\ RowType(1) = "recurring" /\ parsed[1].amount.m > 0
    /\ RowType(2) = "income"
    /\ \E n \in 1..Len(activeBills) : Containment(activeBills[n], RowMerchant(1))
    /\ txnData[1].bill_id = NoBill /\ txnData[2].bill_id = NoBill

\* the requests of a given kind and outcome in the log
RequestsOf(op, status) ==
    {k \in DOMAIN requests : requests[k].op = op /\ requests[k].status = status}

\* the step settles a pending request of kind op as rejected
Rejects(op) ==
    \E k \in DOMAIN requests :
        /\ requests[k].op = op
        /\ requests[k].status = "pending"
        /\ k \in DOMAIN requests'
        /\ requests'[k].status = "failed"

\* saved transaction i is the processed form of parsed row i
SavedFromRow(txn, i) ==
    /\ txn.date = parsed[i].date
    /\ txn.description = parsed[i].description
    /\ txn.amount = parsed[i].amount

\* C4: a createBill that fails for a row does not abort the upload: the row is
\* saved with bill_id null, nothing is added to the in-batch map or to the
\* active-bills list, the loop goes on with the next row (or with the bulk save
\* after the last row), and the bulk save holds exactly one transaction per
\* parsed row, in row order.
C4_FailedCreateBillDoesNotAbort ==
    /\ [][ (pc = "createBill" /\ Rejects("createBill"))
           => /\ Len(txnData') = Len(txnData) + 1
              /\ txnData'[row].bill_id = NoBill
              /\ SavedFromRow(txnData'[row], row)
              /\ createdBillsByMerchant' = createdBillsByMerchant
              /\ activeBills' = activeBills
              /\ error' = error /\ uploadingAccount' = uploadingAccount
              /\ IF row < Len(parsed)
                 THEN pc' = "rows" /\ row' = row + 1
                 ELSE /\ pc' = "createTransactionsBulk"
                      /\ requests'[Len(requests')].op = "createTransactionsBulk"
         ]_vars
    /\ [](\A k \in DOMAIN requests :
              requests[k].op = "createTransactionsBulk"
              => /\ Len(txnData) = Len(parsed)
                 /\ \A i \in 1..Len(parsed) : SavedFromRow(txnData[i], i)
                 /\ requests[k].status = "ok" => dbTransactions = txnData)

\* C4 witness: createBill failed for row 1, the upload went on to create a bill
\* for row 2 and to save both rows, the first without a bill
C4_Witness ==
    /\ pc = "success"
    /\ Len(parsed) = 2
    /\ \E k \in RequestsOf("createBill", "failed") : requests[k].row = 1
    /\ \E k \in RequestsOf("createBill", "ok") : requests[k].row = 2
    /\ Len(dbTransactions) = 2
    /\ dbTransactions[1].bill_id = NoBill
    /\ dbTransactions[2].bill_id # NoBill
    /\ error = ""

\* the awaited steps whose failure the outer catch block handles
FatalOps == {"createImport", "createTransactionsRaw", "listBills", "createTransactionsBulk"}

\* s is t, or t with records appended
Extends(s, t) == Len(s) >= Len(t) /\ SubSeq(s, 1, Len(t)) = t

\* C5: when the file read, createImport, createTransactionsRaw, the upload's
\* listBills or createTransactionsBulk fails, the upload ends in the failed
\* state with the caught error's message shown and the uploading indicator and
\* progress text cleared; from then on it sends no request, and no step of an
\* upload removes an import record, a raw row, a bill or a transaction or
\* sends one of the fatal requests a second time.
C5_FatalFailureEndsUpload ==
    /\ [][ (\/ (pc = "reading" /\ thrown' = "The file could not be read")
            \/ (\E op \in FatalOps : pc = op /\ Rejects(op)))
           => /\ pc' = "failed"
              /\ thrown' # ""
              /\ error' = thrown'
              /\ uploadingAccount' = "null"
              /\ uploadProgress' = NoProgress
              /\ Len(requests') = Len(requests)
              /\ dbVars' = dbVars
         ]_vars
    /\ [][ \A op \in FatalOps : (pc = op /\ Rejects(op)) => thrown' = XanoError(op) ]_vars
    /\ [](pc = "failed"
              => /\ error = thrown /\ error # ""
                 /\ uploadingAccount = "null"
                 /\ uploadProgress = NoProgress
                 /\ ~resetTimer
                 /\ \A k \in DOMAIN requests : requests[k].status # "pending")
    /\ [][ pc = "failed" => (pc' = "failed" /\ requests' = requests /\ dbVars' = dbVars) ]_vars
    /\ [][ /\ Extends(dbImports', dbImports) /\ Extends(dbRaw', dbRaw)
           /\ Extends(dbBills', dbBills) /\ Extends(dbTransactions', dbTransactions) ]_vars
    /\ [](pc # "success" /\ pc # "refresh"
              => \A j, k \in DOMAIN requests :
                     (requests[j].op = requests[k].op /\ requests[k].op \in FatalOps) => j = k)

\* C5 witness: the bulk save failed after the import record, the raw rows and a
\* new bill were written; they are still there and the page shows the error
C5_Witness ==
    /\ pc = "failed"
    /\ RequestsOf("createTransactionsBulk", "failed") # {}
    /\ RequestsOf("createBill", "ok") # {}
    /\ Len(dbImports) = 1 /\ dbImports[1].status = "processing"
    /\ Len(dbRaw) = Len(parsed) /\ Len(parsed) > 0
    /\ Len(dbBills) = Len(activeBills)
    /\ dbTransactions = <<>>
    /\ error = XanoError("createTransactionsBulk")
    /\ uploadingAccount = "null" /\ uploadProgress = NoProgress

PendingRequests == {k \in DOMAIN requests : requests[k].status = "pending"}

\* the stage of the upload a request belongs to: its position in the order
\* createImport, createTransactionsRaw, listBills, createBill..., 
\* createTransactionsBulk, refresh
Stage(k) ==
    CASE requests[k].op = "createImport" -> 1
      [] requests[k].op = "createTransactionsRaw" -> 2
      [] /\ requests[k].op = "listBills"
         /\ \A j \in 1..(k - 1) : requests[j].op # "createTransactionsBulk" -> 3
      [] requests[k].op = "createBill" -> 4
      [] requests[k].op = "createTransactionsBulk" -> 5
      [] OTHER -> 6

C7_FinalProgressCounts ==
    /\ (pc = "refresh" \/ (pc = "success" /\ resetTimer))
           => /\ uploadProgress.text = "Imported n transactions! Created k new bills."
              /\ uploadProgress.n = Len(parsed)
              /\ uploadProgress.n = Len(dbTransactions)
              /\ uploadProgress.k = Cardinality(RequestsOf("createBill", "ok"))
              /\ uploadProgress.k = Cardinality(DOMAIN createdBillsByMerchant)
              /\ uploadingAccount = accountType
    /\ uploadProgress.text = "Imported n transactions! Created k new bills."
           => pc \in {"refresh", "success"}

\* C7 witness: two rows were imported; createBill failed for one and succeeded
\* for the other, and the message counts 2 transactions and 1 new bill
C7_Witness ==
    /\ pc = "success" /\ resetTimer
    /\ uploadProgress.n = 2 /\ uploadProgress.k = 1
    /\ Cardinality(RequestsOf("createBill", "failed")) = 1
    /\ Cardinality({i \in DOMAIN txnData : txnData[i].bill_id # NoBill}) = 1

(***************************************************************************)
(* parseBankDate applied to assembled strings (specification SpecDate)     *)
(***************************************************************************)
\* the parts a date string is assembled from: one- and two-digit months and
\* days, two-digit years on both sides of the pivot, four-digit years, a
\* three-digit number, an empty part and parts that are not numbers
DateParts ==
    { <<>>,
      <<"3">>,
      <<"1", "2">>,
      <<"3", "1">>,
      <<"5", "0">>,
      <<"5", "1">>,
      <<"9", "9">>,
      <<"0", "0">>,
      <<"2", "0", "2", "4">>,
      <<"1", "9", "9", "9">>,
      <<"2", "0", "2">>,
      <<"a", "b">>,
      <<"0", "x">> }

DateStrs == {join(ps, "/") : ps \in SeqsUpTo(DateParts, MaxDateParts)}

InitDate ==
    /\ called = "none"
    /\ arg \in DateStrs
    /\ ret = <<>>
    /\ FlowIdle

CallParseBankDate ==
    /\ called = "none"
    /\ called' = "parseBankDate"
    /\ ret' = parseBankDate(arg)
    /\ UNCHANGED <<arg, envVars, loginVars, monthVars, payVars, uploadsVars, billsVars, rowVars, pageVars, runVars, dbVars, requests>>

NextDate == CallParseBankDate

SpecDate == InitDate /\ [][NextDate]_vars

(***************************************************************************)
(* parseBankAmount applied to short strings (specification SpecAmount)     *)
(***************************************************************************)
\* the three characters the function strips, white space, a sign, the decimal
\* point, two digits and a letter
AmountAlphabet == {"$", "\"", ",", " ", "-", ".", "1", "0", "a"}

InitAmount ==
    /\ called = "none"
    /\ arg \in SeqsUpTo(AmountAlphabet, MaxAmountLen)
    /\ ret = <<>>
    /\ FlowIdle

CallParseBankAmount ==
    /\ called = "none"
    /\ called' = "parseBankAmount"
    /\ ret' = parseBankAmount(arg)
    /\ UNCHANGED <<arg, envVars, loginVars, monthVars, payVars, uploadsVars, billsVars, rowVars, pageVars, runVars, dbVars, requests>>

NextAmount == CallParseBankAmount

SpecAmount == InitAmount /\ [][NextAmount]_vars

(***************************************************************************)
(* extractMerchant applied to assembled descriptions (SpecMerchant)        *)
(***************************************************************************)
\* the pieces a description is assembled from: a name of more than 50
\* characters, a short name, the prefixes the first pattern skips, the tails
\* that end its capture group (a number of three digits or more, "Card"), a
\* city of the third pattern, a transfer phrase of the second, and pieces
\* that end no group (two digits, white space)
MerchantPieces ==
    { <<"A", "C", "M", "E", " ", "S", "T", "O", "R", "E", "S", " ", "O", "F", " ", "G", "R", "E", "A", "T", "E", "R", " ", "P", "H", "I", "L", "A", "D", "E", "L", "P", "H", "I", "A", " ", "I", "N", "C", "O", "R", "P", "O", "R", "A", "T", "E", "D", " ", "L", "L", "C">>,
      <<"N", "E", "T", "F", "L", "I", "X", ".", "C", "O", "M">>,
      <<"W", "i", "t", "h", "d", "r", "a", "w", "a", "l", " ">>,
      <<"P", "O", "S", " ">>,
      <<" ", "1", "2", "3", "4", "5">>,
      <<" ", "S", "E", "A", "T", "T", "L", "E", " ", "W", "A">>,
      <<"D", "e", "p", "o", "s", "i", "t", " ", "T", "r", "a", "n", "s", "f", "e", "r", " ", "F", "r", "o", "m", " ">>,
      <<" ", "C", "a", "r", "d">>,
      <<" ", " ">>,
      <<"#", "1", "2", " ">>,
      <<"R", "e", "c", "u", "r", "r", "i", "n", "g", " ", "W", "i", "t", "h", "d", "r", "a", "w", "a", "l", " ", "A", "C", "H", " ">>,
      <<" ", "1", "2">> }

MerchantDescriptions == {Flatten(ps) : ps \in SeqsUpTo(MerchantPieces, MaxMerchantPieces)}

InitMerchant ==
    /\ called = "none"
    /\ arg \in MerchantDescriptions
    /\ ret = <<>>
    /\ FlowIdle

CallExtractMerchant ==
    /\ called = "none"
    /\ called' = "extractMerchant"
    /\ ret' = extractMerchant(arg)
    /\ UNCHANGED <<arg, envVars, loginVars, monthVars, payVars, uploadsVars, billsVars, rowVars, pageVars, runVars, dbVars, requests>>

NextMerchant == CallExtractMerchant

SpecMerchant == InitMerchant /\ [][NextMerchant]_vars

(***************************************************************************)
(* Claims about the field normalizers                                      *)
(***************************************************************************)
AllDigits(s) == \A i \in 1..Len(s) : s[i] \in {"0", "1", "2", "3", "4", "5", "6", "7", "8", "9"}

\* the number a string of digits denotes
NumeralValue(s) ==
    LET v[i \in 0..Len(s)] ==
            IF i = 0 THEN 0
            ELSE 10 * v[i - 1] +
                 (CHOOSE d \in 0..9 :
                      <<"0", "1", "2", "3", "4", "5", "6", "7", "8", "9">>[d + 1] = s[i])
    IN  v[Len(s)]

\* the pieces of a string between its slashes, when it has exactly two
SlashPositions(s) == {i \in 1..Len(s) : s[i] = "/"}
MonthOf(s) == SubSeq(s, 1, KthOf(SlashPositions(s), 1) - 1)
DayOf(s) == SubSeq(s, KthOf(SlashPositions(s), 1) + 1, KthOf(SlashPositions(s), 2) - 1)
YearOf(s) == SubSeq(s, KthOf(SlashPositions(s), 2) + 1, Len(s))

\* MM/DD/YYYY or MM/DD/YY with a month and a day of one or two digits
IsBankDateShape(s) ==
    /\ Cardinality(SlashPositions(s)) = 2
    /\ Len(MonthOf(s)) \in {1, 2} /\ AllDigits(MonthOf(s))
    /\ Len(DayOf(s)) \in {1, 2} /\ AllDigits(DayOf(s))
    /\ Len(YearOf(s)) \in {2, 4} /\ AllDigits(YearOf(s))

\* C11: for every MM/DD/YYYY or MM/DD/YY input, parseBankDate returns
\* YYYY-MM-DD: a four-digit year, the month and the day as two digits with the
\* values they had, and a two-digit year yy becomes 19yy when yy > 50 and 20yy
\* otherwise.
C11_BankDateBecomesIsoDate ==
    (called = "parseBankDate" /\ IsBankDateShape(arg))
    => /\ Len(ret) = 10
       /\ ret[5] = "-" /\ ret[8] = "-"
       /\ AllDigits(SubSeq(ret, 1, 4))
       /\ AllDigits(SubSeq(ret, 6, 7))
       /\ AllDigits(SubSeq(ret, 9, 10))
       /\ NumeralValue(SubSeq(ret, 6, 7)) = NumeralValue(MonthOf(arg))
       /\ NumeralValue(SubSeq(ret, 9, 10)) = NumeralValue(DayOf(arg))
       /\ NumeralValue(SubSeq(ret, 1, 4)) =
              IF Len(YearOf(arg)) = 4 THEN NumeralValue(YearOf(arg))
              ELSE IF NumeralValue(YearOf(arg)) > 50
                   THEN 1900 + NumeralValue(YearOf(arg))
                   ELSE 2000 + NumeralValue(YearOf(arg))

\* C11 witness: "3/12/50" has been normalized to "2050-03-12"
C11_Witness ==
    /\ called = "parseBankDate"
    /\ arg = <<"3", "/", "1", "2", "/", "5", "0">>
    /\ ret = <<"2", "0", "5", "0", "-", "0", "3", "-", "1", "2">>

\* C12: every input that is not of the shape MM/DD/YYYY or MM/DD/YY is
\* returned unchanged.
C12_OtherShapesPassThrough ==
    (called = "parseBankDate" /\ ~IsBankDateShape(arg)) => ret = arg

\* C12 witness: the slash-separated ISO-like date "2024/12/31" has been
\* rewritten to "2031-2024-12"
C12_Witness ==
    /\ called = "parseBankDate"
    /\ ~IsBankDateShape(arg)
    /\ arg = <<"2", "0", "2", "4", "/", "1", "2", "/", "3", "1">>
    /\ ret = <<"2", "0", "3", "1", "-", "2", "0", "2", "4", "-", "1", "2">>

\* the characters of s that are none of '$', '"' and ',', in order
WithoutCurrencyMarks(s) ==
    LET keep == {i \in 1..Len(s) : s[i] \notin {"$", "\"", ","}}
    IN  [k \in 1..Cardinality(keep) |-> s[KthOf(keep, k)]]

\* s from its first character that is not a space
FromFirstNonSpace(s) ==
    LET at == {i \in 1..Len(s) : s[i] # " "}
    IN  IF at = {} THEN <<>> ELSE SubSeq(s, KthOf(at, 1), Len(s))

\* u reads as a decimal number: an optional sign, then digits with at most one
\* decimal point among them and at least one digit
Unsigned(u) == IF u # <<>> /\ u[1] \in {"+", "-"} THEN Tail(u) ELSE u
DotsOf(b) == {i \in 1..Len(b) : b[i] = "."}
IsDecimalNumeral(u) ==
    /\ Cardinality(DotsOf(Unsigned(u))) <= 1
    /\ \A i \in 1..Len(Unsigned(u)) : i \notin DotsOf(Unsigned(u)) => AllDigits(<<Unsigned(u)[i]>>)
    /\ Len(Unsigned(u)) - Cardinality(DotsOf(Unsigned(u))) >= 1

\* the longest prefix of t that reads as a decimal number, <<>> if there is none
LongestNumeralPrefix(t) ==
    LET ns == {n \in 1..Len(t) : IsDecimalNumeral(SubSeq(t, 1, n))}
    IN  IF ns = {} THEN <<>> ELSE SubSeq(t, 1, KthOf(ns, Cardinality(ns)))

\* of a decimal numeral: its digits without the point, the number of digits
\* after the point, and its sign
DigitsOf(u) == SelectSeq(Unsigned(u), LAMBDA c : c # ".")
FractionLength(u) ==
    IF DotsOf(Unsigned(u)) = {} THEN 0
    ELSE Len(Unsigned(u)) - KthOf(DotsOf(Unsigned(u)), 1)
SignOf(u) == IF u[1] = "-" THEN -1 ELSE 1

Pow10(n) == LET f[i \in 0..n] == IF i = 0 THEN 1 ELSE 10 * f[i - 1] IN f[n]

\* C13: parseBankAmount returns a number for every string (it has no failing
\* path): with every '$', '"' and ',' removed and the white space around the
\* rest ignored, the result is the signed decimal number the rest starts with,
\* and 0 when it starts with none.
C13_AmountIsParsedOrZero ==
    called = "parseBankAmount" =>
        LET u == LongestNumeralPrefix(FromFirstNonSpace(WithoutCurrencyMarks(arg)))
        IN  /\ ret.nan = FALSE
            /\ ret.m \in Int /\ ret.e \in Nat
            /\ IF u = <<>> THEN ret = Zero
               ELSE ret.m * Pow10(FractionLength(u)) =
                        SignOf(u) * NumeralValue(DigitsOf(u)) * Pow10(ret.e)

\* C13 witness: "-1,0" has been read as -10 (the comma removed, the sign kept)
C13_Witness ==
    /\ called = "parseBankAmount"
    /\ arg = <<"-", "1", ",", "0">>
    /\ ret = [nan |-> FALSE, m |-> -10, e |-> 0]

\* r is the first n characters of s, or all of s when s is shorter
IsPrefixOfAtMost(r, s, n) ==
    /\ Len(r) = (IF Len(s) < n THEN Len(s) ELSE n)
    /\ \A i \in 1..Len(r) : r[i] = s[i]

\* no pattern of extractMerchant matches the description with a non-empty
\* first capture group
NoPatternCaptures(description) ==
    \A m \in {match1(description), match2(description), match3(description)} :
        m = <<>> \/ m[1] = <<>>

\* C14: extractMerchant returns at most 50 characters for every description,
\* and exactly the first 50 characters of the description when no pattern
\* matches with a non-empty first capture group.
C14_MerchantLabelAtMost50 ==
    called = "extractMerchant" =>
        /\ Len(ret) <= 50
        /\ NoPatternCaptures(arg) => IsPrefixOfAtMost(ret, arg, 50)
        /\ ~NoPatternCaptures(arg) =>
               \E p \in 1..Len(arg) : \A i \in 1..Len(ret) : ret[i] = arg[p + i - 1]

\* C14 witness: a description of more than 50 characters that no pattern
\* matches has been cut to its first 50 characters
C14_Witness ==
    /\ called = "extractMerchant"
    /\ Len(arg) > 50
    /\ NoPatternCaptures(arg)
    /\ Len(ret) = 50
    /\ ret = SubSeq(arg, 1, 50)

(***************************************************************************)
(* The buttons of a transaction row: handleMarkRecurring and               *)
(* handleCreateBillFromTransaction, part_003:763-791, 1143-1213.  A        *)
(* transaction's id is its position in the backend table.  One handler runs*)
(* at a time.                                                              *)
(***************************************************************************)
\* mutant: the type is left out of the update, so it is written as "misc"
markTransactionRecurringBody_typeMisc(billId, isRecurring) ==
    [is_recurring |-> isRecurring, bill_id |-> billId, transaction_type |-> "misc"]

\* the body markTransactionRecurring sends, endpoints.ts:211-224
markTransactionRecurringBody(billId, isRecurring) ==
    [is_recurring |-> isRecurring, bill_id |-> billId,
     transaction_type |-> IF isRecurring THEN "recurring" ELSE "misc"]

\* a request of handler number click joins the log as pending
Send(log, click, op, id, body) ==
    Append(log, [op |-> op, id |-> id, body |-> body, click |-> click, status |-> "pending"])

PendingWrites(op) ==
    {k \in DOMAIN writes : /\ writes[k].op = op
                           /\ writes[k].status = "pending"
                           /\ writes[k].click = clicks}

SettleWrite(k, status) == [writes EXCEPT ![k].status = status]

\* the "Recurring" button is shown for a transaction, part_003:1143
CanMark(t) == ~t.is_recurring /\ t.amount.m < 0

\* a bill of the "Link to Bill" list is clicked: onMarkRecurring(id, true, bill.id),
\* handleMarkRecurring up to its await, part_003:1185-1188 and 763-765
ClickLinkToBill(i) ==
    /\ rowPc = "idle"
    /\ clicks < MaxClicks
    /\ i \in DOMAIN transactions
    /\ CanMark(transactions[i])
    /\ clicks' = clicks + 1
    /\ \E b \in DOMAIN bills :
           writes' = Send(writes, clicks + 1, "markTransactionRecurring", i,
                          markTransactionRecurringBody(<<bills[b].id>>, TRUE))
    /\ rowTxn' = i
    /\ rowPc' = "mark"
    /\ UNCHANGED <<envVars, loginVars, monthVars, payVars, uploadsVars, billsVars, pureVars, pageVars, runVars, dbVars, requests>>

\* mutant: unmarking keeps the link to the bill
unmarkArguments_keepsBill(t) == [isRecurring |-> FALSE, billId |-> t.bill_id]

\* the arguments of the unmark button: onMarkRecurring(id, false, null), part_003:1161
unmarkArguments(t) == [isRecurring |-> FALSE, billId |-> NoBill]

\* the unmark button is clicked, part_003:1159-1161 and 763-765
ClickUnmark(i) ==
    /\ rowPc = "idle"
    /\ clicks < MaxClicks
    /\ i \in DOMAIN transactions
    /\ transactions[i].is_recurring
    /\ clicks' = clicks + 1
    /\ writes' = Send(writes, clicks + 1, "markTransactionRecurring", i,
                      markTransactionRecurringBody(unmarkArguments(transactions[i]).billId,
                                                   unmarkArguments(transactions[i]).isRecurring))
    /\ rowTxn' = i
    /\ rowPc' = "mark"
    /\ UNCHANGED <<envVars, loginVars, monthVars, payVars, uploadsVars, billsVars, pureVars, pageVars, runVars, dbVars, requests>>

\* "+ Create New Bill" is clicked: handleCreateBillFromTransaction up to its
\* first await, part_003:1201-1204 and 772-784
ClickCreateBill(i) ==
    /\ rowPc = "idle"
    /\ clicks < MaxClicks
    /\ userId # ""
    /\ i \in DOMAIN transactions
    /\ CanMark(transactions[i])
    /\ clicks' = clicks + 1
    /\ LET txn == transactions[i] IN
       writes' = Send(writes, clicks + 1, "createBill", 0,
                      [name |-> IF txn.merchant # <<>> THEN txn.merchant
                                ELSE substring0(txn.description, 30),
                       due_day |-> dueDayOf(txn.date, timeZoneOffset),
                       amount_expected |-> abs(txn.amount), is_variable |-> FALSE,
                       autopay |-> FALSE, active |-> TRUE])
    /\ rowTxn' = i
    /\ rowPc' = "createBill"
    /\ UNCHANGED <<envVars, loginVars, monthVars, payVars, uploadsVars, billsVars, pureVars, pageVars, runVars, dbVars, requests>>

\* createBill resolved: mark the transaction with the new bill, part_003:776-786
RowCreateBillOk ==
    /\ rowPc = "createBill"
    /\ \E k \in PendingWrites("createBill") :
       LET newBill == [id |-> Len(dbBills) + 1] @@ writes[k].body IN
       /\ dbBills' = Append(dbBills, newBill)
       /\ writes' = Send(SettleWrite(k, "ok"), clicks, "markTransactionRecurring", rowTxn,
                         markTransactionRecurringBody(<<newBill.id>>, TRUE))
    /\ rowPc' = "mark"
    /\ UNCHANGED <<envVars, loginVars, monthVars, payVars, uploadsVars, billsVars, pureVars, pageVars, runVars, dbImports, dbRaw, dbTransactions,
                   requests, rowTxn, clicks>>

\* a request of a handler rejected: its catch block shows the error,
\* part_003:767-769 and 788-790
RowRequestFails(op) ==
    /\ rowPc = (IF op = "createBill" THEN "createBill" ELSE "mark")
    /\ \E k \in PendingWrites(op) : writes' = SettleWrite(k, "failed")
    /\ error' = XanoError(op)
    /\ rowPc' = "idle"
    /\ UNCHANGED <<envVars, loginVars, monthVars, payVars, uploadsVars, billsVars, pureVars, userId, loading, transactions, bills, uploadingAccount,
                   uploadProgress, resetTimer, runVars, dbVars, requests, rowTxn, clicks>>

\* markTransactionRecurring resolved: the backend row is updated, and refresh()
\* runs up to its await, part_003:765-766 and 603-611
MarkOk ==
    /\ rowPc = "mark"
    /\ \E k \in PendingWrites("markTransactionRecurring") :
       /\ dbTransactions' =
              [dbTransactions EXCEPT ![writes[k].id] =
                  [@ EXCEPT !.is_recurring = writes[k].body.is_recurring,
                            !.bill_id = writes[k].body.bill_id,
                            !.transaction_type = writes[k].body.transaction_type]]
       /\ writes' = Send(Send(SettleWrite(k, "ok"), clicks, "listTransactions", 0, <<>>),
                         clicks, "listBills", 0, <<>>)
    /\ loading' = TRUE
    /\ error' = ""
    /\ rowPc' = "refresh"
    /\ UNCHANGED <<envVars, loginVars, monthVars, payVars, uploadsVars, billsVars, pureVars, userId, transactions, bills, uploadingAccount,
                   uploadProgress, resetTimer, runVars, dbBills, dbImports, dbRaw,
                   requests, rowTxn, clicks>>

\* a request of the handler's refresh resolved; with both resolved the lists are
\* stored, part_003:608-618
RowRefreshOk(op) ==
    /\ rowPc = "refresh"
    /\ op \in {"listTransactions", "listBills"}
    /\ \E k \in PendingWrites(op) :
       /\ writes' = SettleWrite(k, "ok")
       /\ IF \A j \in DOMAIN writes : j # k => writes[j].status # "pending"
          THEN /\ transactions' = dbTransactions
               /\ bills' = activeOnly(dbBills)
               /\ loading' = FALSE
               /\ rowPc' = "idle"
          ELSE UNCHANGED <<transactions, bills, loading, rowPc>>
    /\ UNCHANGED <<envVars, loginVars, monthVars, payVars, uploadsVars, billsVars, pureVars, userId, error, uploadingAccount, uploadProgress,
                   resetTimer, runVars, dbVars, requests, rowTxn, clicks>>

\* a request of the handler's refresh rejected: refresh shows the error and
\* returns, part_003:614-618
RowRefreshFails(op) ==
    /\ rowPc = "refresh"
    /\ op \in {"listTransactions", "listBills"}
    /\ \E k \in PendingWrites(op) : writes' = SettleWrite(k, "failed")
    /\ error' = XanoError(op)
    /\ loading' = FALSE
    /\ rowPc' = "idle"
    /\ UNCHANGED <<envVars, loginVars, monthVars, payVars, uploadsVars, billsVars, pureVars, userId, transactions, bills, uploadingAccount,
                   uploadProgress, resetTimer, runVars, dbVars, requests, rowTxn, clicks>>

\* the other request of a rejected Promise.all settles: nobody reads it
RowIgnoredResponse ==
    /\ rowPc = "idle"
    /\ \E k \in DOMAIN writes :
       /\ writes[k].status = "pending"
       /\ \E st \in {"ok", "failed"} : writes' = SettleWrite(k, st)
    /\ UNCHANGED <<envVars, loginVars, monthVars, payVars, uploadsVars, billsVars, pureVars, pageVars, runVars, dbVars, requests, rowPc, rowTxn,
                   clicks>>

RowNext ==
    \/ \E i \in 1..MaxRows : ClickLinkToBill(i)
    \/ \E i \in 1..MaxRows : ClickUnmark(i)
    \/ \E i \in 1..MaxRows : ClickCreateBill(i)
    \/ RowCreateBillOk
    \/ \E op \in {"createBill", "markTransactionRecurring"} : RowRequestFails(op)
    \/ MarkOk
    \/ \E op \in {"listTransactions", "listBills"} : RowRefreshOk(op)
    \/ \E op \in {"listTransactions", "listBills"} : RowRefreshFails(op)
    \/ RowIgnoredResponse

\* the rows of the statements uploaded before the row buttons are used: a
\* recurring outflow and an outflow of no recurring kind
RowButtonPalette ==
    { [date |-> <<"3", "/", "5", "/", "2", "0", "2", "4">>, description |-> <<"N", "E", "T", "F", "L", "I", "X">>, category |-> <<"O", "n", "l", "i", "n", "e", " ", "S", "e", "r", "v", "i", "c", "e", "s">>, amount |-> <<"-", "1", "5", ".", "9", "9">>],
      [date |-> <<"3", "/", "1", "/", "2", "0", "2", "4">>, description |-> <<"C", "O", "F", "F", "E", "E", " ", "S", "H", "O", "P">>, category |-> <<"R", "e", "s", "t", "a", "u", "r", "a", "n", "t", "s">>, amount |-> <<"-", "4", ".", "5", "0">>] }

\* the page with one upload and the row buttons
NextRows ==
    \/ Mount
    \/ \E file \in FilesOf(RowButtonPalette) : StartUpload("checking", file)
    \/ UploadSteps
    \/ RowNext

SpecRows == Init /\ [][NextRows]_vars

(***************************************************************************)
(* Claims about the bills and transactions the client writes               *)
(***************************************************************************)
\* s has the form YYYY-MM-DD
IsIsoDate(s) ==
    /\ Len(s) = 10
    /\ s[5] = "-" /\ s[8] = "-"
    /\ AllDigits(SubSeq(s, 1, 4)) /\ AllDigits(SubSeq(s, 6, 7)) /\ AllDigits(SubSeq(s, 9, 10))

\* the rows for which the upload created a bill, and the bill created for row i
RowsWithNewBill == {i \in Pushed : \E k \in CreateCalls(i) : requests[k].status = "ok"}
NewBillOf(i) == dbBills[CHOOSE n \in 1..Len(dbBills) : <<dbBills[n].id>> = txnData[i].bill_id]

\* C15: every bill the import pipeline creates has due_day equal to the day of
\* the month written in the row's normalized YYYY-MM-DD date, in every time
\* zone, with name = merchant label, amount_expected = |amount|, is_variable
\* = false, autopay = false and active = true.
C15_DueDayIsDayOfRowDate ==
    \A i \in RowsWithNewBill :
        /\ NewBillOf(i).name = RowMerchant(i)
        /\ NewBillOf(i).amount_expected = [parsed[i].amount EXCEPT !.m = -parsed[i].amount.m]
        /\ NewBillOf(i).is_variable = FALSE
        /\ NewBillOf(i).autopay = FALSE
        /\ NewBillOf(i).active = TRUE
        /\ IsIsoDate(parsed[i].date) =>
               NewBillOf(i).due_day = <<NumeralValue(SubSeq(parsed[i].date, 9, 10))>>

\* C15 witness: in a browser five hours west of Greenwich the bill created for
\* the row dated 2024-03-05 has due_day 4
C15_Witness ==
    /\ timeZoneOffset = -5
    /\ \E i \in RowsWithNewBill :
           /\ parsed[i].date = <<"2", "0", "2", "4", "-", "0", "3", "-", "0", "5">>
           /\ NewBillOf(i).due_day = <<4>>
           /\ NewBillOf(i).name = RowMerchant(i)

\* the bodies of the markTransactionRecurring requests the row buttons sent
MarkRequests == {k \in DOMAIN writes : writes[k].op = "markTransactionRecurring"}

\* C16: every transaction the client writes, as an element of an upload's
\* bulk save or as a markTransactionRecurring request, has is_recurring true
\* exactly when its transaction_type is "recurring".
C16_RecurringFlagAgreesWithType ==
    /\ \A i \in DOMAIN txnData :
           /\ txnData[i].is_recurring \in BOOLEAN
           /\ txnData[i].is_recurring <=> txnData[i].transaction_type = "recurring"
    /\ \A k \in MarkRequests :
           /\ writes[k].body.is_recurring \in BOOLEAN
           /\ writes[k].body.is_recurring <=> writes[k].body.transaction_type = "recurring"
    /\ \A i \in DOMAIN dbTransactions :
           dbTransactions[i].is_recurring <=> dbTransactions[i].transaction_type = "recurring"

\* C16 witness: a transaction saved by the upload as "misc" has been marked
\* recurring through a row button, and one saved as "recurring" exists
C16_Witness ==
    /\ \E k \in MarkRequests :
           /\ writes[k].status = "ok"
           /\ writes[k].body.is_recurring
           /\ txnData[writes[k].id].transaction_type = "misc"
           /\ dbTransactions[writes[k].id].transaction_type = "recurring"
    /\ \E i \in DOMAIN txnData : txnData[i].is_recurring

\* C17: every transaction write of the UI flows (the bulk save of an upload,
\* mark as recurring with a chosen bill, unmark, create bill from transaction)
\* carries a bill_id other than null only when is_recurring is true, and an
\* unmark request carries bill_id null.
C17_BillLinkOnlyOnRecurring ==
    /\ \A i \in DOMAIN txnData : txnData[i].bill_id # NoBill => txnData[i].is_recurring
    /\ \A k \in MarkRequests :
           /\ writes[k].body.bill_id # NoBill => writes[k].body.is_recurring
           /\ ~writes[k].body.is_recurring => writes[k].body.bill_id = NoBill
    /\ \A i \in DOMAIN dbTransactions :
           dbTransactions[i].bill_id # NoBill => dbTransactions[i].is_recurring

\* C17 witness: a transaction the upload had linked to a bill has been unmarked
\* and is stored without the link
C17_Witness ==
    \E k \in MarkRequests :
        /\ writes[k].status = "ok"
        /\ ~writes[k].body.is_recurring
        /\ txnData[writes[k].id].bill_id # NoBill
        /\ dbTransactions[writes[k].id].bill_id = NoBill
        /\ ~dbTransactions[writes[k].id].is_recurring

\* the requests the upload flow sends
UploadOps ==
    {"createImport", "createTransactionsRaw", "listBills", "createBill",
     "createTransactionsBulk", "listTransactions"}

\* C18: the client performs no terminal status transition on an import: the
\* record is created with status "processing", and no later request of the
\* upload changes it, whether the upload ends in success or in failure.
C18_ImportStaysProcessing ==
    /\ [](\A i \in DOMAIN dbImports : dbImports[i].status = "processing")
    /\ [][ \A i \in DOMAIN dbImports :
               i \in DOMAIN dbImports' /\ dbImports'[i] = dbImports[i] ]_vars
    /\ [](\A k \in DOMAIN requests : requests[k].op \in UploadOps)
    /\ [](importRecord # <<>> => importRecord.status = "processing")

\* C18 witness: an upload has ended in success, its transactions are saved and
\* the lists refreshed, and its import still says "processing"
C18_Witness ==
    /\ pc = "success"
    /\ dbTransactions # <<>>
    /\ PendingRequests = {}
    /\ RequestsOf("createImport", "ok") # {}
    /\ Len(dbImports) = 1 /\ dbImports[1].status = "processing"

(***************************************************************************)
(* The bills page: AddBillForm (part_002:220-272), EditBillForm            *)
(* (EditBillForm.tsx:15-62) and the handlers of BillsPage                  *)
(* (bills/page.tsx:96-145 and 267-322).  Of the six requests of its        *)
(* refresh the model keeps listBills, the one that fills the list of       *)
(* bills.  A field of a request body that may be null is <<v>> or <<>>.    *)
(* One handler runs at a time, and the page is opened in the tab of the    *)
(* transactions page once no upload is running there.                      *)
(***************************************************************************)
MaxDueDayLen == 3   \* longest text typed into the due-day field in SpecBills

\* the text is a decimal literal without exponent from end to end
IsStrDecimalLiteral(t) ==
    LET signed == t # <<>> /\ t[1] \in {"-", "+"}
        u == IF signed THEN Tail(t) ELSE t
        intPart == digitPrefix(u)
        rest == SubSeq(u, Len(intPart) + 1, Len(u))
        hasDot == rest # <<>> /\ rest[1] = "."
        fracPart == IF hasDot THEN digitPrefix(Tail(rest)) ELSE <<>>
    IN  /\ Len(intPart) + Len(fracPart) > 0
        /\ Len(u) = Len(intPart) + (IF hasDot THEN 1 + Len(fracPart) ELSE 0)

\* Number(text): white space around the text is dropped, the empty text is 0,
\* and a text that is not a numeral from end to end is NaN
Number(s) ==
    LET t == trim(s)
    IN  IF t = <<>> THEN Zero
        ELSE IF IsStrDecimalLiteral(t) THEN parseFloat(t) ELSE NaN

tenTo(n) == LET f[i \in 0..n] == IF i = 0 THEN 1 ELSE 10 * f[i - 1] IN f[n]

\* Math.floor of a number that is not NaN
floor(x) == x.m \div tenTo(x.e)

\* mutant: the due day is taken as typed, without the range check
dueDayNum_unchecked(dueDay) ==
    LET n == Number(dueDay)
    IN  IF n.nan THEN <<>> ELSE <<floor(n)>>

\* useMemo dueDayNum of both forms, part_002:237-241 and EditBillForm.tsx:33-37
dueDayNum(dueDay) ==
    LET n == Number(dueDay)
    IN  IF n.nan \/ n.m < tenTo(n.e) \/ n.m > 31 * tenTo(n.e) THEN <<>>
        ELSE <<floor(n)>>

\* the expected amount handleSubmit passes on, part_002:258-268: a number or
\* <<>> for null
amountOf(amountExpected, isVariable) ==
    IF isVariable \/ trim(amountExpected) = <<>> THEN <<>>
    ELSE LET amt == Number(amountExpected) IN IF amt.nan THEN <<>> ELSE amt

\* the input handleSubmit hands to onSubmit, part_002:254-272 and
\* EditBillForm.tsx:39-62
formInput(form) ==
    [name |-> trim(form.name), due_day |-> dueDayNum(form.dueDay),
     amount_expected |-> amountOf(form.amountExpected, form.isVariable),
     is_variable |-> form.isVariable, autopay |-> form.autopay]

\* what a user may have in the fields of a form when submitting it
DueDayAlphabet == {"1", "3", ".", " "}
DueDayTexts == SeqsUpTo(DueDayAlphabet, MaxDueDayLen) \cup {<<"-", "3">>, <<"a">>}
FormNames == {<<" ", "G", "y", "m", " ">>, <<" ">>}
AmountTexts == {<<>>, <<"9", ".", "5", "0">>, <<"a">>}
Forms ==
    [name : FormNames, dueDay : DueDayTexts, amountExpected : AmountTexts,
     isVariable : BOOLEAN, autopay : BOOLEAN]

\* the inputs a form hands to onSubmit: handleSubmit returns early on a name
\* that is blank, part_002:255-256 and EditBillForm.tsx:40-41
SubmittedInputs == {formInput(form) : form \in {f \in Forms : trim(f.name) # <<>>}}

BillFields == {"name", "due_day", "amount_expected", "is_variable", "autopay", "active"}

\* the body createBill is called with by handleAddBill, bills/page.tsx:273-281
addBillBody(input) ==
    [name |-> trim(input.name), due_day |-> input.due_day,
     amount_expected |-> input.amount_expected, is_variable |-> input.is_variable,
     autopay |-> input.autopay, active |-> TRUE]

\* the patch handleEditBill calls updateBill with, bills/page.tsx:296-302
editPatch(input) ==
    [name |-> <<trim(input.name)>>, due_day |-> input.due_day,
     amount_expected |-> IF input.amount_expected = <<>> THEN <<>>
                         ELSE <<input.amount_expected>>,
     is_variable |-> <<input.is_variable>>, autopay |-> <<input.autopay>>]

\* the patch handleDeleteBill calls updateBill with, bills/page.tsx:316
deletePatch == [active |-> <<FALSE>>]

\* the body updateBill sends for a patch, endpoints.ts:133-143: all six fields,
\* each patch.field ?? null
updateBillBody(patch) ==
    [f \in BillFields |-> IF f \in DOMAIN patch THEN patch[f] ELSE <<>>]

BillSend(op, id, patch, body) ==
    Append(billRequests,
           [op |-> op, id |-> id, patch |-> patch, body |-> body, status |-> "pending"])

BillPending(op) ==
    {k \in DOMAIN billRequests :
        billRequests[k].op = op /\ billRequests[k].status = "pending"}

BillSettle(k, status) == [billRequests EXCEPT ![k].status = status]

\* the handlers the page has started
billClicks == Cardinality({k \in DOMAIN billRequests : billRequests[k].op # "listBills"})

\* the backend, PATCH /bills/{id}: a field of the body that is not null is
\* stored; one that is null is left alone or set to null, as nullInPatch says
NullInPatch == {"ignored", "stored"}
NullTracked == {"name", "is_variable", "autopay", "active"}

storedAfterPatch(bill, body) ==
    [id |-> bill.id,
     name |-> IF body.name # <<>> THEN body.name[1] ELSE bill.name,
     due_day |-> IF body.due_day # <<>> THEN body.due_day
                 ELSE IF nullInPatch = "stored" THEN <<>> ELSE bill.due_day,
     amount_expected |-> IF body.amount_expected # <<>> THEN body.amount_expected[1]
                         ELSE IF nullInPatch = "stored" THEN <<>>
                         ELSE bill.amount_expected,
     is_variable |-> IF body.is_variable # <<>> THEN body.is_variable[1]
                     ELSE bill.is_variable,
     autopay |-> IF body.autopay # <<>> THEN body.autopay[1] ELSE bill.autopay,
     active |-> IF body.active # <<>> THEN body.active[1] ELSE bill.active]

nullsAfterPatch(id, body) ==
    {x \in dbNulls : x[1] # id \/ body[x[2]] = <<>>}
        \cup (IF nullInPatch = "stored"
              THEN {<<id, f>> : f \in {g \in NullTracked : body[g] = <<>>}}
              ELSE {})

\* the mount effect with a session in localStorage and the effect that follows
\* it: refresh up to its await, bills/page.tsx:96-104, 175-178, 106-128
BillsMount ==
    /\ billsUserId = ""
    /\ pc \in {"success", "failed"}
    /\ ~resetTimer
    /\ \A k \in DOMAIN requests : requests[k].status # "pending"
    /\ rowPc = "idle"
    /\ billsUserId' = "1"
    /\ billsError' = ""
    /\ billRequests' = BillSend("listBills", 0, <<>>, <<>>)
    /\ billsPc' = "refresh"
    /\ UNCHANGED <<envVars, loginVars, monthVars, payVars, uploadsVars, rowVars, pureVars, pageVars, runVars, dbVars, requests,
                   billsShown, showAdd, savingNewBill, editingBill, dbNulls>>

\* "Add bill" opens the add form, bills/page.tsx:500
OpenAdd ==
    /\ billsUserId # ""
    /\ billsPc = "idle"
    /\ billClicks < MaxClicks
    /\ ~showAdd /\ editingBill = <<>>
    /\ showAdd' = TRUE
    /\ UNCHANGED <<envVars, loginVars, monthVars, payVars, uploadsVars, rowVars, pureVars, pageVars, runVars, dbVars, requests,
                   billsUserId, billsError, billsShown, savingNewBill, editingBill,
                   billsPc, billRequests, dbNulls>>

\* a bill's edit button opens the edit form on it, bills/page.tsx:644
StartEdit(i) ==
    /\ billsUserId # ""
    /\ billsPc = "idle"
    /\ billClicks < MaxClicks
    /\ ~showAdd /\ editingBill = <<>>
    /\ i \in DOMAIN billsShown
    /\ editingBill' = <<billsShown[i]>>
    /\ UNCHANGED <<envVars, loginVars, monthVars, payVars, uploadsVars, rowVars, pureVars, pageVars, runVars, dbVars, requests,
                   billsUserId, billsError, billsShown, showAdd, savingNewBill,
                   billsPc, billRequests, dbNulls>>

\* a form is closed without submitting, bills/page.tsx:654, 661
CloseForm ==
    /\ billsPc = "idle"
    /\ showAdd \/ editingBill # <<>>
    /\ showAdd' = FALSE
    /\ editingBill' = <<>>
    /\ UNCHANGED <<envVars, loginVars, monthVars, payVars, uploadsVars, rowVars, pureVars, pageVars, runVars, dbVars, requests,
                   billsUserId, billsError, billsShown, savingNewBill, billsPc,
                   billRequests, dbNulls>>

\* the add form is submitted with a name that is not blank: handleSubmit and
\* handleAddBill up to its await, part_002:254-272 and bills/page.tsx:267-281
SubmitAdd(input) ==
    /\ showAdd
    /\ billsPc = "idle"
    /\ billClicks < MaxClicks
    /\ billsUserId # ""
    /\ savingNewBill' = TRUE
    /\ billsError' = ""
    /\ billRequests' = BillSend("createBill", 0, <<>>, addBillBody(input))
    /\ billsPc' = "createBill"
    /\ UNCHANGED <<envVars, loginVars, monthVars, payVars, uploadsVars, rowVars, pureVars, pageVars, runVars, dbVars, requests,
                   billsUserId, billsShown, showAdd, editingBill, dbNulls>>

\* the edit form is submitted with a name that is not blank: handleSubmit and
\* handleEditBill up to its await, EditBillForm.tsx:39-62 and
\* bills/page.tsx:291-302
SubmitEdit(input) ==
    /\ editingBill # <<>>
    /\ billsPc = "idle"
    /\ billClicks < MaxClicks
    /\ billsUserId # ""
    /\ billsError' = ""
    /\ LET patch == editPatch(input) IN
       billRequests' = BillSend("updateBill", editingBill[1].id, patch,
                                updateBillBody(patch))
    /\ billsPc' = "updateBill"
    /\ UNCHANGED <<envVars, loginVars, monthVars, payVars, uploadsVars, rowVars, pureVars, pageVars, runVars, dbVars, requests,
                   billsUserId, billsShown, showAdd, savingNewBill, editingBill, dbNulls>>

\* "Delete" in the edit form, with the confirm() accepted: handleDeleteBill up
\* to its await, bills/page.tsx:310-316
ClickDelete ==
    /\ editingBill # <<>>
    /\ billsPc = "idle"
    /\ billClicks < MaxClicks
    /\ billsUserId # ""
    /\ billsError' = ""
    /\ billRequests' = BillSend("updateBill", editingBill[1].id, deletePatch,
                                updateBillBody(deletePatch))
    /\ billsPc' = "updateBill"
    /\ UNCHANGED <<envVars, loginVars, monthVars, payVars, uploadsVars, rowVars, pureVars, pageVars, runVars, dbVars, requests,
                   billsUserId, billsShown, showAdd, savingNewBill, editingBill, dbNulls>>

\* createBill resolved: close the form, and refresh up to its await,
\* bills/page.tsx:282-283
AddBillOk ==
    /\ billsPc = "createBill"
    /\ \E k \in BillPending("createBill") :
       /\ dbBills' = Append(dbBills, [id |-> Len(dbBills) + 1] @@ billRequests[k].body)
       /\ billRequests' = Append(BillSettle(k, "ok"),
                                 [op |-> "listBills", id |-> 0, patch |-> <<>>,
                                  body |-> <<>>, status |-> "pending"])
    /\ showAdd' = FALSE
    /\ billsPc' = "refresh"
    /\ UNCHANGED <<envVars, loginVars, monthVars, payVars, uploadsVars, rowVars, pureVars, pageVars, runVars, requests, dbImports,
                   dbRaw, dbTransactions, billsUserId, billsError, billsShown,
                   savingNewBill, editingBill, dbNulls>>

\* updateBill resolved: close the edit form, and refresh up to its await,
\* bills/page.tsx:303-304, 317-318
UpdateBillOk ==
    /\ billsPc = "updateBill"
    /\ \E k \in BillPending("updateBill") :
       LET id == billRequests[k].id
           body == billRequests[k].body
       IN  /\ dbBills' = [dbBills EXCEPT ![id] = storedAfterPatch(@, body)]
           /\ dbNulls' = nullsAfterPatch(id, body)
           /\ billRequests' = Append(BillSettle(k, "ok"),
                                     [op |-> "listBills", id |-> 0, patch |-> <<>>,
                                      body |-> <<>>, status |-> "pending"])
    /\ editingBill' = <<>>
    /\ billsPc' = "refresh"
    /\ UNCHANGED <<envVars, loginVars, monthVars, payVars, uploadsVars, rowVars, pureVars, pageVars, runVars, requests, dbImports,
                   dbRaw, dbTransactions, billsUserId, billsError, billsShown, showAdd,
                   savingNewBill>>

\* createBill or updateBill rejected: the catch and finally blocks,
\* bills/page.tsx:284-288, 305-307, 319-321
BillWriteFails(op) ==
    /\ billsPc = op
    /\ op \in {"createBill", "updateBill"}
    /\ \E k \in BillPending(op) : billRequests' = BillSettle(k, "failed")
    /\ billsError' = XanoError(op)
    /\ savingNewBill' = FALSE
    /\ billsPc' = "idle"
    /\ UNCHANGED <<envVars, loginVars, monthVars, payVars, uploadsVars, rowVars, pureVars, pageVars, runVars, dbVars, requests,
                   billsUserId, billsShown, showAdd, editingBill, dbNulls>>

\* refresh's listBills resolved: the bills that are not inactive are shown,
\* bills/page.tsx:129, 142-144, 286-288
BillsRefreshOk ==
    /\ billsPc = "refresh"
    /\ \E k \in BillPending("listBills") : billRequests' = BillSettle(k, "ok")
    /\ billsShown' = SelectSeq(dbBills, LAMBDA b : <<b.id, "active">> \in dbNulls \/ b.active)
    /\ savingNewBill' = FALSE
    /\ billsPc' = "idle"
    /\ UNCHANGED <<envVars, loginVars, monthVars, payVars, uploadsVars, rowVars, pureVars, pageVars, runVars, dbVars, requests,
                   billsUserId, billsError, showAdd, editingBill, dbNulls>>

\* refresh's listBills rejected, bills/page.tsx:140-144
BillsRefreshFails ==
    /\ billsPc = "refresh"
    /\ \E k \in BillPending("listBills") : billRequests' = BillSettle(k, "failed")
    /\ billsError' = XanoError("listBills")
    /\ savingNewBill' = FALSE
    /\ billsPc' = "idle"
    /\ UNCHANGED <<envVars, loginVars, monthVars, payVars, uploadsVars, rowVars, pureVars, pageVars, runVars, dbVars, requests,
                   billsUserId, billsShown, showAdd, editingBill, dbNulls>>

BillsNext ==
    \/ BillsMount
    \/ OpenAdd
    \/ \E i \in 1..(4 + MaxRows + MaxClicks) : StartEdit(i)
    \/ CloseForm
    \/ \E input \in SubmittedInputs : SubmitAdd(input)
    \/ \E input \in SubmittedInputs : SubmitEdit(input)
    \/ ClickDelete
    \/ AddBillOk
    \/ UpdateBillOk
    \/ \E op \in {"createBill", "updateBill"} : BillWriteFails(op)
    \/ BillsRefreshOk
    \/ BillsRefreshFails

\* the row of the statements uploaded before the bills page is opened: a
\* recurring outflow on the last day of a month
BillsPalette ==
    { [date |-> <<"3", "/", "3", "1", "/", "2", "0", "2", "4">>, description |-> <<"N", "E", "T", "F", "L", "I", "X">>, category |-> <<"O", "n", "l", "i", "n", "e", " ", "S", "e", "r", "v", "i", "c", "e", "s">>, amount |-> <<"-", "1", "5", ".", "9", "9">>] }

InitBills ==
    /\ called = "none"
    /\ arg = <<>>
    /\ ret = <<>>
    /\ PageIdle
    /\ month = MonthAtOpen
    /\ EmptyTables
    /\ dbBills \in InitialBills
    /\ timeZoneOffset \in TimeZoneOffsets
    /\ nullInPatch \in NullInPatch

NextBills ==
    \/ Mount
    \/ (\E file \in FilesOf(BillsPalette) : StartUpload("checking", file))
    \/ UploadSteps
    \/ BillsNext

SpecBills == InitBills /\ [][NextBills]_vars

(***************************************************************************)
(* Claims about the bills the client writes                                *)
(***************************************************************************)
DueDayOk(d) == d = <<>> \/ (Len(d) = 1 /\ d[1] \in 1..31)

BillWrites ==
    {k \in DOMAIN billRequests : billRequests[k].op \in {"createBill", "updateBill"}}

\* C19: every bill the client creates or edits, through the add form, the edit
\* form or the import pipeline, is sent with due_day null or an integer in 1..31.
C19_DueDayNullOrDayOfMonth ==
    /\ \A k \in BillWrites : DueDayOk(billRequests[k].body.due_day)
    /\ \A k \in DOMAIN requests :
           requests[k].op = "createBill"
               => DueDayOk(dueDayOf(parsed[requests[k].row].date, timeZoneOffset))
    /\ \A k \in DOMAIN writes :
           writes[k].op = "createBill" => DueDayOk(writes[k].body.due_day)
    /\ \A i \in DOMAIN dbBills : DueDayOk(dbBills[i].due_day)

\* C19 witness: the import pipeline has created a bill, and the edit form has
\* then sent a due day that was typed with a fraction
C19_Witness ==
    /\ RequestsOf("createBill", "ok") # {}
    /\ \E i \in DOMAIN dbBills : dbBills[i].due_day \in {<<30>>, <<31>>}
    /\ \E k \in BillWrites :
           /\ billRequests[k].op = "updateBill"
           /\ "name" \in DOMAIN billRequests[k].patch
           /\ billRequests[k].status = "ok"
           /\ billRequests[k].body.due_day = <<3>>

\* the value a stored bill holds in a field, null being <<>>
StoredField(b, nulls, f) == IF <<b.id, f>> \in nulls THEN <<>> ELSE <<b[f]>>

\* C20: deleting a bill is a soft delete that changes only the active flag, and
\* an updateBill call changes only the fields present in its patch: when an
\* updateBill request succeeds, every field of the bill that its patch does not
\* name holds what it held before.
C20_UpdateBillChangesOnlyPatchFields ==
    [][ \A k \in BillPending("updateBill") :
            billRequests'[k].status = "ok"
                => \A f \in BillFields \ DOMAIN billRequests[k].patch :
                       StoredField(dbBills'[billRequests[k].id], dbNulls', f)
                           = StoredField(dbBills[billRequests[k].id], dbNulls, f) ]_vars

\* C20 witness: a delete has succeeded and the bill it made inactive has lost
\* its name and its due day as well
C20_Witness ==
    \E k \in BillWrites :
        /\ billRequests[k].patch = deletePatch
        /\ billRequests[k].status = "ok"
        /\ ~dbBills[billRequests[k].id].active
        /\ <<billRequests[k].id, "name">> \in dbNulls
        /\ dbBills[billRequests[k].id].due_day = <<>>

(***************************************************************************)
(* More than one upload.  handleFileUpload has no guard of its own; a card *)
(* offers its file input whenever uploadingAccount is not its account      *)
(* (part_003:886-906, 1009-1036), so a run can be started after another    *)
(* has ended and also while another is suspended at an await.  The page    *)
(* variables pc .. thrown hold the locals of one run; Resume exchanges     *)
(* them with those of another run, which stands for that run's awaited     *)
(* promise being the next to settle.  Of the requests only createBill is   *)
(* refused in SpecUploads.                                                 *)
(***************************************************************************)
MaxUploads == 2     \* most runs of handleFileUpload in SpecUploads
MaxSwitches == 1    \* most times the page turns to another run in SpecUploads

Locals ==
    [pc |-> pc, accountType |-> accountType, fileText |-> fileText, parsed |-> parsed,
     importRecord |-> importRecord, activeBills |-> activeBills,
     createdBillsByMerchant |-> createdBillsByMerchant, txnData |-> txnData,
     row |-> row, thrown |-> thrown]

\* mutant: the runs share one map of the bills created
newBillMap_shared == createdBillsByMerchant

\* new Map<string, Bill>(), part_003:680
newBillMap == <<>>

\* a further handleFileUpload up to its first await, part_003:625-633, started
\* from a card that shows its file input
StartAnotherUpload(account, file) ==
    /\ userId # ""
    /\ pc # "idle"
    /\ uploadingAccount # account
    /\ Len(suspended) + 1 < MaxUploads
    /\ suspended' = Append(suspended, [locals |-> Locals, owned |-> Mine])
    /\ UNCHANGED switches
    /\ uploadingAccount' = account
    /\ uploadProgress' = Progress("Reading file...", 0, 0, <<>>)
    /\ error' = ""
    /\ accountType' = account
    /\ fileText' = file
    /\ pc' = "reading"
    /\ parsed' = <<>>
    /\ importRecord' = <<>>
    /\ activeBills' = <<>>
    /\ createdBillsByMerchant' = newBillMap
    /\ txnData' = <<>>
    /\ row' = 0
    /\ thrown' = ""
    /\ UNCHANGED <<envVars, loginVars, monthVars, payVars, billsVars, rowVars, pureVars, userId, loading, transactions,
                   bills, resetTimer, dbVars, requests>>

\* the promise another run awaits is the next to settle
Resume(i) ==
    /\ i \in DOMAIN suspended
    /\ switches < MaxSwitches
    /\ switches' = switches + 1
    /\ LET r == suspended[i].locals IN
       /\ r.pc # "failed"
       /\ r.pc = "success"
              => \E k \in suspended[i].owned : requests[k].status = "pending"
       /\ suspended' = [suspended EXCEPT ![i] = [locals |-> Locals, owned |-> Mine]]
       /\ pc' = r.pc
       /\ accountType' = r.accountType
       /\ fileText' = r.fileText
       /\ parsed' = r.parsed
       /\ importRecord' = r.importRecord
       /\ activeBills' = r.activeBills
       /\ createdBillsByMerchant' = r.createdBillsByMerchant
       /\ txnData' = r.txnData
       /\ row' = r.row
       /\ thrown' = r.thrown
    /\ UNCHANGED <<envVars, loginVars, monthVars, payVars, billsVars, rowVars, pureVars, pageVars, dbVars, requests>>

\* the rows of the statements uploaded: recurring outflows of two merchants
UploadsPalette ==
    { [date |-> <<"3", "/", "5", "/", "2", "0", "2", "4">>, description |-> <<"N", "E", "T", "F", "L", "I", "X">>, category |-> <<"O", "n", "l", "i", "n", "e", " ", "S", "e", "r", "v", "i", "c", "e", "s">>, amount |-> <<"-", "1", "5", ".", "9", "9">>],
      [date |-> <<"3", "/", "1", "/", "2", "0", "2", "4">>, description |-> <<"A", "M", "A", "Z", "O", "N", " ", "P", "R", "I", "M", "E">>, category |-> <<"O", "n", "l", "i", "n", "e", " ", "S", "e", "r", "v", "i", "c", "e", "s">>, amount |-> <<"-", "1", "4", ".", "9", "9">>] }

\* the statement files uploaded: up to MaxRows data rows each
UploadFiles == FilesOf(UploadsPalette) \ {Header}

InitUploads ==
    /\ called = "none"
    /\ arg = <<>>
    /\ ret = <<>>
    /\ FlowIdle

NextUploads ==
    \/ Mount
    \/ \E account \in AccountTypes, file \in UploadFiles : StartUpload(account, file)
    \/ \E account \in AccountTypes, file \in UploadFiles :
           StartAnotherUpload(account, file)
    \/ \E i \in 1..MaxUploads : Resume(i)
    \/ FileTextOk
    \/ CreateImportOk
    \/ CreateTransactionsRawOk
    \/ ListBillsOk
    \/ ProcessRow
    \/ CreateBillOk
    \/ CreateBillFail
    \/ CreateTransactionsBulkOk
    \/ \E op \in {"listTransactions", "listBills"} : RefreshRequestOk(op)
    \/ ResetTimerFires

SpecUploads == InitUploads /\ [][NextUploads]_vars

(***************************************************************************)
(* Claims about uploads: files without rows, overlapping uploads, repeats  *)
(***************************************************************************)
\* the lines of a text that are not blank
LinesOf(text) == SelectSeq(split(text, "\n"), LAMBDA l : trim(l) # <<>>)

\* the file is empty, has only a header, or each of its data rows has fewer
\* than nine fields (none of the rows drawn has a quoted field)
NoValidRow(text) ==
    LET ls == LinesOf(text)
    IN  \/ Len(ls) < 2
        \/ \A i \in 2..Len(ls) : Len(SelectSeq(ls[i], LAMBDA c : c = ",")) < 8

FilesWithoutRows == {f \in Files : NoValidRow(f)}

\* C27: an uploaded file that yields no parsed transactions makes the upload
\* fail with 'No valid transactions found in CSV' before any backend request
\* is made: no import record, raw rows, bills or transactions are created.
\* (The other message is the one of a file whose reading itself was rejected.)
C27_NoRowsFailsBeforeAnyRequest ==
    /\ [][ (pc = "reading" /\ pc' # "reading" /\ fileText \in FilesWithoutRows)
               => /\ pc' = "failed"
                  /\ requests' = <<>>
                  /\ dbVars' = dbVars
                  /\ error' \in {"No valid transactions found in CSV",
                                 "The file could not be read"}
                  /\ uploadingAccount' = "null" /\ uploadProgress' = NoProgress ]_vars
    /\ []((pc # "idle" /\ fileText \in FilesWithoutRows)
              => /\ requests = <<>>
                 /\ dbImports = <<>> /\ dbRaw = <<>> /\ dbTransactions = <<>>)
    /\ [][ (pc # "idle" /\ fileText \in FilesWithoutRows) => dbBills' = dbBills ]_vars

\* C27 witness: a file whose only data row has three fields was read and the
\* upload has failed with the message, nothing sent
C27_Witness ==
    /\ pc = "failed"
    /\ fileText \in FilesWithoutRows
    /\ Len(LinesOf(fileText)) = 2
    /\ error = "No valid transactions found in CSV"
    /\ requests = <<>>
    /\ dbImports = <<>>

\* the positions of a run between its start and its success or failure
Running(p) == p \notin {"idle", "success", "failed"}

\* the account types of the uploads that have started and not yet ended
RunningAccounts ==
    (IF Running(pc) THEN {accountType} ELSE {})
        \cup {suspended[i].locals.accountType :
                  i \in {j \in DOMAIN suspended : Running(suspended[j].locals.pc)}}

\* C28 (as the spec states it): while an upload runs, uploadingAccount is its
\* account type and the progress text is not empty
C28_IndicatorShowsRunningUpload ==
    \A a \in RunningAccounts : uploadingAccount = a /\ uploadProgress # NoProgress

\* C28 witness: the one upload that runs was started after an earlier one had
\* succeeded, the earlier one's delayed reset has fired, and the indicator and
\* the progress text are cleared
C28_Witness ==
    /\ Running(pc)
    /\ Len(suspended) = 1
    /\ suspended[1].locals.pc = "success"
    /\ switches = 0
    /\ ~resetTimer
    /\ uploadingAccount = "null"
    /\ uploadProgress = NoProgress

\* the locals of every upload started: the one the page is at, then the others
Runs == <<Locals>> \o [i \in DOMAIN suspended |-> suspended[i].locals]

\* the ids of the bills in a run's map of created bills
createdIds(created) == {created[key].id : key \in DOMAIN created}

\* C21: uploads overlap; each has the import record it created itself and a map
\* of created bills that holds only bills it created itself
C21_UploadsHaveOwnImportAndBillMap ==
    /\ \A i \in DOMAIN Runs :
           Runs[i].importRecord # <<>>
               => /\ Runs[i].importRecord \in {dbImports[k] : k \in DOMAIN dbImports}
                  /\ Runs[i].importRecord.account_type = Runs[i].accountType
    /\ \A i, j \in DOMAIN Runs :
           i # j =>
               /\ (Runs[i].importRecord # <<>> /\ Runs[j].importRecord # <<>>)
                      => Runs[i].importRecord.id # Runs[j].importRecord.id
               /\ createdIds(Runs[i].createdBillsByMerchant)
                      \cap createdIds(Runs[j].createdBillsByMerchant) = {}

\* C21 witness: two uploads, the second started while the first was running,
\* have each created a bill for netflix
C21_Witness ==
    /\ Len(suspended) = 1
    /\ switches = 1
    /\ Running(pc)
    /\ \E key \in DOMAIN createdBillsByMerchant :
           /\ key \in DOMAIN suspended[1].locals.createdBillsByMerchant
           /\ createdBillsByMerchant[key].id
                  # suspended[1].locals.createdBillsByMerchant[key].id
           /\ createdBillsByMerchant[key].name
                  = suspended[1].locals.createdBillsByMerchant[key].name
    /\ importRecord # <<>>
    /\ suspended[1].locals.importRecord # <<>>
    /\ Len(dbBills) = 2

\* the upload the page is at is a repeat: it was started with the file of the
\* upload before it, after that upload had succeeded
RepeatOfSucceeded ==
    /\ Len(suspended) = 1
    /\ switches = 0
    /\ suspended[1].locals.pc = "success"
    /\ suspended[1].locals.fileText = fileText

\* the repeat has asked for no bill, and every recurring outflow it has
\* processed is linked to a bill
RepeatCreatesNoBill ==
    /\ \A k \in Mine : requests[k].op # "createBill"
    /\ createdBillsByMerchant = <<>>
    /\ \A i \in DOMAIN txnData :
           (txnData[i].is_recurring /\ txnData[i].amount.m < 0)
               => txnData[i].bill_id # NoBill

\* every createBill request of the first upload was answered with a bill
FirstRunCreatedItsBills ==
    \A k \in suspended[1].owned :
        requests[k].op = "createBill" => requests[k].status = "ok"

MaxMonthClicks == 3     \* most presses of the month buttons in SpecMonth

InvalidDate == [valid |-> FALSE, year |-> 0, month |-> 0, date |-> 1]

\* the days a day of the month lies beyond its month's end (0 when it exists)
overflowDays(y, mo, d) ==
    IF d > daysInMonth(y, mo + 1) THEN d - daysInMonth(y, mo + 1) ELSE 0

\* MakeDay: a month outside 0..11 carries into the year, and a day beyond the
\* month's end carries into the next month
makeDay(y, mo, d) ==
    LET yy == y + (mo \div 12)
        mm == mo % 12
        over == overflowDays(yy, mm, d)
    IN  IF over = 0 THEN [valid |-> TRUE, year |-> yy, month |-> mm, date |-> d]
        ELSE [valid |-> TRUE, year |-> yy + ((mm + 1) \div 12), month |-> (mm + 1) % 12,
              date |-> over]

\* new Date(year, monthIndex, 1): a year of 0..99 means 1900 + year
newDate(y, mo, d) ==
    IF y.nan \/ mo.nan THEN InvalidDate
    ELSE LET yi == floor(y)
         IN  makeDay(IF yi >= 0 /\ yi <= 99 THEN 1900 + yi ELSE yi, floor(mo), d)

\* mutant: Date.prototype.setMonth without the carry into the year
setMonth_noCarry(d, mo) ==
    IF ~d.valid THEN d ELSE [d EXCEPT !.month = mo % 12]

\* Date.prototype.setMonth(monthIndex)
setMonth(d, mo) == IF ~d.valid THEN d ELSE makeDay(d.year, mo, d.date)

\* String(n) of an integer
RECURSIVE natString(_)
natString(n) ==
    IF n < 10 THEN <<Digits[n + 1]>> ELSE natString(n \div 10) \o <<Digits[(n % 10) + 1]>>

intString(n) == IF n < 0 THEN <<"-">> \o natString(-n) ELSE natString(n)

NaNString == <<"N", "a", "N">>

\* getMonthString, bills/page.tsx:54-58
getMonthString(date) ==
    LET yyyy == IF date.valid THEN intString(date.year) ELSE NaNString
        mm == padStart0(IF date.valid THEN intString(date.month + 1) ELSE NaNString, 2)
    IN  yyyy \o <<"-">> \o mm

\* month - 1 of parseMonth: Number(m) - 1
minusOne(x) == IF x.nan THEN x ELSE [x EXCEPT !.m = x.m - tenTo(x.e)]

\* parseMonth, bills/page.tsx:60-63
parseMonth(text) ==
    LET parts == split(text, "-")
    IN  IF Len(parts) < 2 THEN InvalidDate
        ELSE newDate(Number(parts[1]), minusOne(Number(parts[2])), 1)

\* what new Date() can return: the last day of a year, the last days of a
\* January and of a leap February, and the first day of a December
Clocks ==
    { [valid |-> TRUE, year |-> 1999, month |-> 11, date |-> 31],
      [valid |-> TRUE, year |-> 2024, month |-> 0, date |-> 31],
      [valid |-> TRUE, year |-> 2024, month |-> 1, date |-> 29],
      [valid |-> TRUE, year |-> 2024, month |-> 11, date |-> 1] }

(***************************************************************************)
(* Claims about the month shown                                            *)
(***************************************************************************)
\* the text is YYYY-MM with MM from 01 to 12
IsYearMonth(text) ==
    /\ Len(text) = 7
    /\ \A i \in {1, 2, 3, 4, 6, 7} : IsDigit(text[i])
    /\ text[5] = "-"
    /\ digitsToNat(SubSeq(text, 6, 7)) \in 1..12

\* the months since year 0 of a text YYYY-MM
monthsOf(text) == 12 * digitsToNat(SubSeq(text, 1, 4)) + digitsToNat(SubSeq(text, 6, 7))

\* C30: the month shown is always YYYY-MM with MM from 01 to 12; the next and
\* the previous button move it by exactly one calendar month, and pressing
\* one after the other returns to the month before the two presses
C30_MonthStepsByOne ==
    /\ IsYearMonth(month)
    /\ \A i \in DOMAIN monthOps :
           /\ IsYearMonth(monthOps[i].to)
           /\ monthOps[i].op = "next"
                  => monthsOf(monthOps[i].to) = monthsOf(monthOps[i].from) + 1
           /\ monthOps[i].op = "prev"
                  => monthsOf(monthOps[i].to) = monthsOf(monthOps[i].from) - 1
    /\ \A i \in DOMAIN monthOps :
           (i + 1 \in DOMAIN monthOps
                /\ {monthOps[i].op, monthOps[i + 1].op} = {"next", "prev"})
               => monthOps[i + 1].to = monthOps[i].from

\* C30 witness: from December 1999 the next button led to January 2000 and the
\* previous button back
C30_Witness ==
    /\ Len(monthOps) >= 2
    /\ monthOps[1].op = "next"
    /\ monthOps[1].from = <<"1", "9", "9", "9", "-", "1", "2">>
    /\ monthOps[1].to = <<"2", "0", "0", "0", "-", "0", "1">>
    /\ monthOps[2].op = "prev"
    /\ month = <<"1", "9", "9", "9", "-", "1", "2">>

(***************************************************************************)
(* BillsPage: the month's payments, the overlapping refreshes of month     *)
(* navigation and the payroll, bills/page.tsx:96-197, 251-265, 324-369     *)
(*                                                                         *)
(* Each call of refresh and of handleTogglePaid is a task: it holds what   *)
(* the call closed over (the month, the bill, the request body) and where  *)
(* it is suspended.  The six requests of refresh's Promise.all are taken   *)
(* as one answer, read from the tables when it arrives.  null is <<>>, a   *)
(* nullable value v is v itself where it is a record and <<v>> where it is *)
(* a string.                                                               *)
(***************************************************************************)
MaxTasks == 2           \* most handlers suspended at the same time
MaxToggles == 3         \* most clicks on a paid checkbox

Cents(n) == [nan |-> FALSE, m |-> n, e |-> 2]

\* x + y of two numbers with the same number of decimals
plus(x, y) == IF x.nan \/ y.nan THEN NaN ELSE [x EXCEPT !.m = x.m + y.m]

\* a bill with two transactions in March 2024 and one in April, a bill with an
\* expected amount and no transaction, and a variable bill with neither
PayBills ==
    << [id |-> 1, name |-> <<"N", "e", "t", "f", "l", "i", "x">>, due_day |-> <<5>>,
        amount_expected |-> Cents(1599), is_variable |-> FALSE, autopay |-> FALSE,
        active |-> TRUE],
       [id |-> 2, name |-> <<"G", "y", "m">>, due_day |-> <<1>>,
        amount_expected |-> Cents(3000), is_variable |-> FALSE, autopay |-> FALSE,
        active |-> TRUE],
       [id |-> 3, name |-> <<"P", "o", "w", "e", "r">>, due_day |-> <<>>,
        amount_expected |-> <<>>, is_variable |-> TRUE, autopay |-> FALSE,
        active |-> TRUE] >>

PayTransactions ==
    << [id |-> 1, date |-> <<"2", "0", "2", "4", "-", "0", "3", "-", "0", "5">>,
        amount |-> Cents(-1599), bill_id |-> <<1>>],
       [id |-> 2, date |-> <<"2", "0", "2", "4", "-", "0", "3", "-", "2", "0">>,
        amount |-> Cents(-401), bill_id |-> <<1>>],
       [id |-> 3, date |-> <<"2", "0", "2", "4", "-", "0", "4", "-", "0", "5">>,
        amount |-> Cents(-1699), bill_id |-> <<1>>],
       [id |-> 4, date |-> <<"2", "0", "2", "4", "-", "0", "3", "-", "0", "9">>,
        amount |-> Cents(-250), bill_id |-> <<>>] >>

\* GET /transactions?month=: the transactions dated in the month
transactionsIn(table, mo) == SelectSeq(table, LAMBDA t : SubSeq(t.date, 1, 7) = mo)

\* GET /bill-payments?month=: the month's payment records
paymentsIn(table, mo) == SelectSeq(table, LAMBDA p : p.month = mo)

\* paymentsByBillId.get(billId), bills/page.tsx:180-184: the last record of
\* the bill in the list, <<>> for undefined
paymentOf(list, billId) ==
    LET at == {i \in DOMAIN list : list[i].bill_id = billId}
    IN  IF at = {} THEN <<>>
        ELSE list[CHOOSE i \in at : \A j \in at : j <= i]

\* transactionsByBillId.get(billId) || [], bills/page.tsx:186-197
linkedTo(list, billId) == SelectSeq(list, LAMBDA t : t.bill_id = <<billId>>)

\* linkedTxns.reduce((sum, t) => sum + Math.abs(t.amount), 0)
RECURSIVE sumAbs(_)
sumAbs(list) ==
    IF list = <<>> THEN Cents(0)
    ELSE plus(sumAbs(SubSeq(list, 1, Len(list) - 1)), abs(list[Len(list)].amount))

\* bills.find((b) => b.id === billId), <<>> for undefined
findBill(list, billId) ==
    LET hits == SelectSeq(list, LAMBDA b : b.id = billId)
    IN  IF hits = <<>> THEN <<>> ELSE hits[1]

\* new Date().toISOString().slice(0, 10); the clock stays within March 2024
isoDate(t) ==
    <<"2", "0", "2", "4", "-", "0", "3", "-">> \o padStart0(intString(7 + t.day), 2)

\* amount_paid, bills/page.tsx:335-342:
\* existing?.amount_paid ?? actualAmount ?? bill?.amount_expected ?? 0
amountPaidOf(nextPaid, existing, linkedTxns, bill) ==
    IF ~nextPaid THEN Cents(0)
    ELSE IF existing # <<>> /\ existing.amount_paid # <<>> THEN existing.amount_paid
    ELSE IF linkedTxns # <<>> THEN sumAbs(linkedTxns)
    ELSE IF bill # <<>> /\ bill.amount_expected # <<>> THEN bill.amount_expected
    ELSE Cents(0)

\* paid_date, bills/page.tsx:344-346: existing?.paid_date ?? today, or "";
\* the text itself, which is empty for ""
paidDateOf(nextPaid, existing, t) ==
    IF ~nextPaid THEN <<>>
    ELSE IF existing # <<>> /\ existing.paid_date # <<>> THEN existing.paid_date[1]
    ELSE isoDate(t)

\* the body of the upsert, bills/page.tsx:348-356
toggleBody(billId, nextPaid) ==
    LET bill == findBill(billsShown, billId)
        existing == paymentOf(payments, billId)
        linkedTxns == linkedTo(billsTransactions, billId)
    IN  [bill_id |-> billId, month |-> month, paid |-> nextPaid,
         paid_date |-> paidDateOf(nextPaid, existing, clock),
         amount_paid |-> amountPaidOf(nextPaid, existing, linkedTxns, bill)]

\* POST /bill-payments/upsert: one record per bill and month.  How the record
\* reads that was sent an empty paid_date is the backend's: the empty text or
\* null.
upserted(table, body, emptyDate) ==
    LET rec == [bill_id |-> body.bill_id, month |-> body.month, paid |-> body.paid,
                paid_date |-> IF body.paid_date = <<>> THEN emptyDate
                              ELSE <<body.paid_date>>,
                amount_paid |-> body.amount_paid]
        at == {i \in DOMAIN table :
                   table[i].bill_id = body.bill_id /\ table[i].month = body.month}
    IN  IF at = {} THEN Append(table, rec)
        ELSE [i \in DOMAIN table |-> IF i \in at THEN rec ELSE table[i]]

\* the variables the payment and payroll handlers leave alone
payRest ==
    <<envVars, loginVars, uploadsVars, rowVars, pureVars, pageVars, runVars, dbBills, dbImports,
      dbRaw, dbTransactions, requests, showAdd, savingNewBill, editingBill, billsPc,
      billRequests, dbNulls>>

without(list, i) == [k \in 1..(Len(list) - 1) |-> IF k < i THEN list[k] ELSE list[k + 1]]

\* the payroll settings on record: paid on Thursdays
PayrollSettings == [amount |-> Cents(100000), day_of_week |-> 4]

\* the hours the clock is moved by
ClockStep == 6

\* the UTC days the clock stays within
LastDay == 1

\* Date.prototype.getDay in local time: day 0 is a Thursday in UTC
localDay(t, offset) == t.day + ((t.hour + offset) \div 24)

getDay(t, offset) == (4 + localDay(t, offset)) % 7

\* toISOString().slice(0, 10) of two instants are equal: the same UTC day
sameIsoDate(t, u) == t.day = u.day

\* "already applied today", bills/page.tsx:153-159
appliedToday(last, today) == last # <<>> /\ sameIsoDate(last[1], today)

\* checkAndApplyPayroll up to its await, bills/page.tsx:147-168: <<body>> of the
\* upsertAccountBalances it sends, or <<>> when it returns without one
payrollUpsert(balances, payroll, today, offset) ==
    IF getDay(today, offset) # payroll.day_of_week THEN <<>>
    ELSE IF appliedToday(balances.last_payroll_applied, today) THEN <<>>
    ELSE << [checking_balance |-> plus(balances.checking_balance, payroll.amount),
             savings_balance |-> balances.savings_balance,
             last_payroll_applied |-> <<today>>] >>

\* refresh up to its await, bills/page.tsx:106-128
refreshTask(mo) == [kind |-> "refresh", at |-> "all", month |-> mo, bill |-> 0, body |-> <<>>]

\* the mount effect with a session in localStorage, and the effect on
\* [userId, month] that follows it, bills/page.tsx:96-104, 175-178
OpenBillsPage ==
    /\ billsUserId = ""
    /\ billsUserId' = "1"
    /\ billsLoading' = TRUE
    /\ billsError' = ""
    /\ tasks' = Append(tasks, refreshTask(month))
    /\ UNCHANGED <<payRest, monthVars, billsShown, payments, billsTransactions, fetchedFor,
                   accountBalances, savingPaymentIds, upserts, payrollLog, dbPayments,
                   dbBalances, clock>>

\* the effect on [userId, month] after the month was set, bills/page.tsx:175-178
monthEffect(shown) ==
    IF billsUserId # "" /\ shown # month
    THEN /\ Len(tasks) < MaxTasks
         /\ billsLoading' = TRUE
         /\ billsError' = ""
         /\ tasks' = Append(tasks, refreshTask(shown))
    ELSE UNCHANGED <<billsLoading, billsError, tasks>>

\* the answers to refresh's requests have arrived: the lists are stored and the
\* payroll is looked at, bills/page.tsx:121-139, 142-144, 147-168
RefreshResolved(i) ==
    /\ i \in DOMAIN tasks
    /\ tasks[i].kind = "refresh" /\ tasks[i].at = "all"
    /\ billsShown' = SelectSeq(dbBills, LAMBDA b : <<b.id, "active">> \in dbNulls \/ b.active)
    /\ payments' = paymentsIn(dbPayments, tasks[i].month)
    /\ billsTransactions' = transactionsIn(dbTransactions, tasks[i].month)
    /\ fetchedFor' = [payments |-> tasks[i].month, transactions |-> tasks[i].month]
    /\ LET ab == dbBalances
           ps == PayrollSettings
           send == IF ab # <<>> /\ ps.amount.m > 0
                   THEN payrollUpsert(ab, ps, clock, timeZoneOffset) ELSE <<>>
       IN  /\ accountBalances' = ab
           /\ IF send # <<>>
              THEN /\ tasks' = [tasks EXCEPT ![i] = [@ EXCEPT !.at = "payroll",
                                                              !.body = send[1]]]
                   /\ payrollLog' = Append(payrollLog, clock)
                   /\ UNCHANGED billsLoading
              ELSE /\ tasks' = without(tasks, i)
                   /\ billsLoading' = FALSE
                   /\ UNCHANGED payrollLog
    /\ UNCHANGED <<payRest, monthVars, billsUserId, billsError, savingPaymentIds, upserts,
                   dbPayments, dbBalances, clock>>

\* one of refresh's first three requests was refused, bills/page.tsx:140-144
RefreshRejected(i) ==
    /\ i \in DOMAIN tasks
    /\ tasks[i].kind = "refresh" /\ tasks[i].at = "all"
    /\ billsError' = XanoError("listBills")
    /\ billsLoading' = FALSE
    /\ tasks' = without(tasks, i)
    /\ UNCHANGED <<payRest, monthVars, billsUserId, billsShown, payments, billsTransactions,
                   fetchedFor, accountBalances, savingPaymentIds, upserts, payrollLog,
                   dbPayments, dbBalances, clock>>

\* upsertAccountBalances resolved, bills/page.tsx:163-169, 142-144
PayrollUpsertOk(i) ==
    /\ i \in DOMAIN tasks
    /\ tasks[i].at = "payroll"
    /\ dbBalances' = tasks[i].body
    /\ accountBalances' = tasks[i].body
    /\ billsLoading' = FALSE
    /\ tasks' = without(tasks, i)
    /\ UNCHANGED <<payRest, monthVars, billsUserId, billsError, billsShown, payments,
                   billsTransactions, fetchedFor, savingPaymentIds, upserts, payrollLog,
                   dbPayments, clock>>

\* upsertAccountBalances rejected: logged, bills/page.tsx:170-172, 142-144
PayrollUpsertFails(i) ==
    /\ i \in DOMAIN tasks
    /\ tasks[i].at = "payroll"
    /\ billsLoading' = FALSE
    /\ tasks' = without(tasks, i)
    /\ UNCHANGED <<payRest, monthVars, billsUserId, billsError, billsShown, payments,
                   billsTransactions, fetchedFor, accountBalances, savingPaymentIds,
                   upserts, payrollLog, dbPayments, dbBalances, clock>>

\* the checkbox of a row is clicked: handleTogglePaid up to its first await,
\* bills/page.tsx:324-356 and part_002:121-127
TogglePaid(billId) ==
    /\ billsUserId # ""
    /\ findBill(billsShown, billId) # <<>>
    /\ billId \notin savingPaymentIds
    /\ Len(upserts) < MaxToggles
    /\ Len(tasks) < MaxTasks
    /\ LET existing == paymentOf(payments, billId)
           nextPaid == ~(existing # <<>> /\ existing.paid)
           body == toggleBody(billId, nextPaid)
       IN  /\ upserts' = Append(upserts, body)
           /\ tasks' = Append(tasks, [kind |-> "toggle", at |-> "upsert", month |-> month,
                                      bill |-> billId, body |-> body])
    /\ savingPaymentIds' = savingPaymentIds \cup {billId}
    /\ billsError' = ""
    /\ UNCHANGED <<payRest, monthVars, billsUserId, billsShown, payments, billsTransactions,
                   fetchedFor, accountBalances, billsLoading, payrollLog, dbPayments,
                   dbBalances, clock>>

\* upsertBillPayment resolved: the month's payments are asked for,
\* bills/page.tsx:348-358
UpsertPaymentOk(i) ==
    /\ i \in DOMAIN tasks
    /\ tasks[i].kind = "toggle" /\ tasks[i].at = "upsert"
    /\ \E emptyDate \in {<<>>, << <<>> >>} :
           dbPayments' = upserted(dbPayments, tasks[i].body, emptyDate)
    /\ tasks' = [tasks EXCEPT ![i].at = "list"]
    /\ UNCHANGED <<payRest, monthVars, billsUserId, billsError, billsShown, payments,
                   billsTransactions, fetchedFor, accountBalances, billsLoading,
                   savingPaymentIds, upserts, payrollLog, dbBalances, clock>>

\* listBillPayments resolved: the payments are stored, bills/page.tsx:358-368
ListPaymentsOk(i) ==
    /\ i \in DOMAIN tasks
    /\ tasks[i].kind = "toggle" /\ tasks[i].at = "list"
    /\ payments' = paymentsIn(dbPayments, tasks[i].month)
    /\ fetchedFor' = [fetchedFor EXCEPT !.payments = tasks[i].month]
    /\ savingPaymentIds' = savingPaymentIds \ {tasks[i].bill}
    /\ tasks' = without(tasks, i)
    /\ UNCHANGED <<payRest, monthVars, billsUserId, billsError, billsShown,
                   billsTransactions, accountBalances, billsLoading, upserts, payrollLog,
                   dbPayments, dbBalances, clock>>

\* a request of handleTogglePaid rejected, bills/page.tsx:360-368
ToggleRequestFails(i) ==
    /\ i \in DOMAIN tasks
    /\ tasks[i].kind = "toggle"
    /\ billsError' = XanoError(IF tasks[i].at = "upsert" THEN "upsertBillPayment"
                               ELSE "listBillPayments")
    /\ savingPaymentIds' = savingPaymentIds \ {tasks[i].bill}
    /\ tasks' = without(tasks, i)
    /\ UNCHANGED <<payRest, monthVars, billsUserId, billsShown, payments, billsTransactions,
                   fetchedFor, accountBalances, billsLoading, upserts, payrollLog,
                   dbPayments, dbBalances, clock>>

\* time passes
Tick ==
    /\ clock.day < LastDay \/ clock.hour + ClockStep < 24
    /\ clock' = IF clock.hour + ClockStep < 24 THEN [clock EXCEPT !.hour = @ + ClockStep]
                ELSE [day |-> clock.day + 1, hour |-> clock.hour + ClockStep - 24]
    /\ UNCHANGED <<payRest, monthVars, billsVars, payments, billsTransactions, fetchedFor,
                   accountBalances, billsLoading, savingPaymentIds, tasks, upserts,
                   payrollLog, dbPayments, dbBalances>>

\* goToPrevMonth, bills/page.tsx:251-255 and part_003:833-837
goToPrevMonth ==
    /\ Len(monthOps) < MaxMonthClicks
    /\ LET d == parseMonth(month)
           shown == getMonthString(setMonth(d, d.month - 1))
       IN  /\ month' = shown
           /\ monthOps' = Append(monthOps, [op |-> "prev", from |-> month, to |-> shown])
           /\ monthEffect(shown)
    /\ UNCHANGED <<payRest, billsUserId, billsShown, payments, billsTransactions, fetchedFor,
                   accountBalances, savingPaymentIds, upserts, payrollLog, dbPayments,
                   dbBalances, clock>>

\* goToNextMonth, bills/page.tsx:257-261 and part_003:839-843
goToNextMonth ==
    /\ Len(monthOps) < MaxMonthClicks
    /\ LET d == parseMonth(month)
           shown == getMonthString(setMonth(d, d.month + 1))
       IN  /\ month' = shown
           /\ monthOps' = Append(monthOps, [op |-> "next", from |-> month, to |-> shown])
           /\ monthEffect(shown)
    /\ UNCHANGED <<payRest, billsUserId, billsShown, payments, billsTransactions, fetchedFor,
                   accountBalances, savingPaymentIds, upserts, payrollLog, dbPayments,
                   dbBalances, clock>>

\* goToCurrentMonth, bills/page.tsx:263-265
goToCurrentMonth(now) ==
    /\ Len(monthOps) < MaxMonthClicks
    /\ month' = getMonthString(now)
    /\ monthOps' = Append(monthOps, [op |-> "current", from |-> month,
                                    to |-> getMonthString(now)])
    /\ monthEffect(getMonthString(now))
    /\ UNCHANGED <<payRest, billsUserId, billsShown, payments, billsTransactions, fetchedFor,
                   accountBalances, savingPaymentIds, upserts, payrollLog, dbPayments,
                   dbBalances, clock>>

\* useState(() => getMonthString(new Date())), bills/page.tsx:72, part_003:580
InitMonth ==
    /\ called = "none"
    /\ arg = <<>>
    /\ ret = <<>>
    /\ PageIdle
    /\ \E now \in Clocks : month = getMonthString(now)
    /\ EmptyTables
    /\ dbBills = <<>>
    /\ timeZoneOffset = 0
    /\ nullInPatch = "ignored"

NextMonth ==
    \/ goToPrevMonth
    \/ goToNextMonth
    \/ \E now \in Clocks : goToCurrentMonth(now)

SpecMonth == InitMonth /\ [][NextMonth]_vars

\* the bills page of a user with bills and transactions on record and no
\* balances, opened in March 2024
InitPayments ==
    /\ called = "none"
    /\ arg = <<>>
    /\ ret = <<>>
    /\ PageIdle
    /\ month = MonthAtOpen
    /\ dbBills = PayBills
    /\ dbTransactions = PayTransactions
    /\ dbPayments = <<>>
    /\ dbBalances = <<>>
    /\ clock = [day |-> 0, hour |-> 12]
    /\ timeZoneOffset \in TimeZoneOffsets
    /\ nullInPatch = "ignored"

NextPayments ==
    \/ OpenBillsPage
    \/ \E billId \in 1..Len(PayBills) : TogglePaid(billId)
    \/ \E i \in 1..MaxTasks :
           \/ RefreshResolved(i)
           \/ RefreshRejected(i)
           \/ UpsertPaymentOk(i)
           \/ ListPaymentsOk(i)
           \/ ToggleRequestFails(i)

SpecPayments == InitPayments /\ [][NextPayments]_vars

(***************************************************************************)
(* Claims about the paid checkbox                                          *)
(***************************************************************************)
\* C25 (as the spec states it): every upsert sent with paid = true carries a
\* paid date that is not empty, and every upsert sent with paid = false an
\* empty paid date and the amount 0
C25_PaidUpsertsCarryADate ==
    \A k \in DOMAIN upserts :
        /\ upserts[k].paid => upserts[k].paid_date # <<>>
        /\ ~upserts[k].paid
               => upserts[k].paid_date = <<>> /\ upserts[k].amount_paid = Cents(0)

\* C25 witness: a bill was marked paid, unmarked and marked paid again, and
\* the third upsert carries paid = true with an empty paid date
C25_Witness ==
    /\ Len(upserts) = 3
    /\ \A k \in 1..3 : upserts[k].bill_id = 1
    /\ upserts[1].paid /\ upserts[1].paid_date = isoDate(clock)
    /\ ~upserts[2].paid
    /\ upserts[3].paid /\ upserts[3].paid_date = <<>>

\* the amount a bill is to be marked paid with: the sum of the absolute
\* amounts of the month's transactions linked to it, else the bill's expected
\* amount, else 0
amountDue(billId, mo) ==
    LET linked == linkedTo(transactionsIn(dbTransactions, mo), billId)
        bill == findBill(dbBills, billId)
    IN  IF linked # <<>> THEN sumAbs(linked)
        ELSE IF bill # <<>> /\ bill.amount_expected # <<>> THEN bill.amount_expected
        ELSE Cents(0)

\* C26 (as the spec states it): an upsert that marks a bill paid carries the
\* sum of its linked transactions of the month, else its expected amount,
\* else 0
C26_PaidAmountFromTransactionsOrExpected ==
    \A k \in DOMAIN upserts :
        upserts[k].paid
            => upserts[k].amount_paid = amountDue(upserts[k].bill_id, upserts[k].month)

\* C26 witness: the bill with two transactions in the month was marked paid
\* with their sum, unmarked, and marked paid again with the amount 0
C26_Witness ==
    /\ Len(upserts) = 3
    /\ \A k \in 1..3 : upserts[k].bill_id = 1
    /\ upserts[1].paid /\ upserts[1].amount_paid = Cents(2000)
    /\ ~upserts[2].paid
    /\ upserts[3].paid /\ upserts[3].amount_paid = Cents(0)

\* the bills page as in SpecPayments, with the month buttons and the checkbox
\* of the first bill; no request is refused
NextRefresh ==
    \/ OpenBillsPage
    \/ goToPrevMonth
    \/ goToNextMonth
    \/ TogglePaid(1)
    \/ \E i \in 1..MaxTasks :
           \/ RefreshResolved(i)
           \/ UpsertPaymentOk(i)
           \/ ListPaymentsOk(i)

SpecRefresh == InitPayments /\ [][NextRefresh]_vars

(***************************************************************************)
(* Claims about overlapping refreshes                                      *)
(***************************************************************************)
\* C23 (as the spec states it): once every request in flight has completed,
\* the payments and the transactions in state are those of the month shown
C23_StateIsOfTheMonthShown ==
    (billsUserId # "" /\ tasks = <<>>)
        => /\ fetchedFor.payments = month
           /\ fetchedFor.transactions = month
           /\ payments = paymentsIn(dbPayments, month)
           /\ billsTransactions = transactionsIn(dbTransactions, month)

\* C23 witness: the next button was pressed while the first refresh was in
\* flight; both refreshes have completed, April is shown, and the state holds
\* the transactions of March
C23_Witness ==
    /\ billsUserId # ""
    /\ tasks = <<>>
    /\ Len(monthOps) = 1
    /\ monthOps[1].op = "next"
    /\ month = <<"2", "0", "2", "4", "-", "0", "4">>
    /\ fetchedFor.transactions = MonthAtOpen
    /\ billsTransactions = transactionsIn(dbTransactions, MonthAtOpen)
    /\ billsTransactions # transactionsIn(dbTransactions, month)

\* the balances on record at the start: the payroll was last applied a week ago
Balances0 ==
    [checking_balance |-> Cents(50000), savings_balance |-> Cents(0),
     last_payroll_applied |-> << [day |-> -7, hour |-> 12] >>]

\* the bills page of a user with balances on record, opened on Wednesday
\* 2024-03-06 at 18:00 UTC
InitPayroll ==
    /\ called = "none"
    /\ arg = <<>>
    /\ ret = <<>>
    /\ PageIdle
    /\ month = MonthAtOpen
    /\ dbBills = PayBills
    /\ dbTransactions = PayTransactions
    /\ dbPayments = <<>>
    /\ dbBalances = Balances0
    /\ clock = [day |-> -1, hour |-> 18]
    /\ timeZoneOffset \in TimeZoneOffsets
    /\ nullInPatch = "ignored"

NextPayroll ==
    \/ OpenBillsPage
    \/ goToNextMonth
    \/ Tick
    \/ \E i \in 1..MaxTasks :
           \/ RefreshResolved(i)
           \/ PayrollUpsertOk(i)
           \/ PayrollUpsertFails(i)

SpecPayroll == InitPayroll /\ [][NextPayroll]_vars

(***************************************************************************)
(* Claims about the payroll                                                *)
(***************************************************************************)
\* the local calendar days on which an upsert with the payroll added was sent
PayrollDays == {localDay(payrollLog[k], timeZoneOffset) : k \in DOMAIN payrollLog}

\* C24 (as the spec states it): the payroll is only applied on the weekday of
\* the payroll settings, and the checking balance grows by the payroll amount
\* at most once for each local calendar day on which it was applied
C24_PayrollOncePerPayday ==
    /\ \A k \in DOMAIN payrollLog :
           getDay(payrollLog[k], timeZoneOffset) = PayrollSettings.day_of_week
    /\ dbBalances.checking_balance.m
           <= Balances0.checking_balance.m
                  + PayrollSettings.amount.m * Cardinality(PayrollDays)

\* C24 witness: the payroll was applied twice on one local Thursday, on two
\* UTC days, and the balance holds it twice
C24_Witness ==
    /\ Len(payrollLog) = 2
    /\ Cardinality(PayrollDays) = 1
    /\ payrollLog[1].day # payrollLog[2].day
    /\ dbBalances.checking_balance = Cents(250000)

(***************************************************************************)
(* LoginPage: handleSubmit, login/page.tsx:16-83, and the session in       *)
(* localStorage (read by bills/page.tsx:96-104, removed by handleLogout,   *)
(* bills/page.tsx:404-408)                                                 *)
(*                                                                         *)
(* A token is held by the login that returned it and by its parts between  *)
(* the dots; a part is <<object>> when atob and JSON.parse give an object  *)
(* and <<>> when one of them throws.  An object is held by its id, <<>>    *)
(* when it has none.                                                       *)
(***************************************************************************)
MaxLogins == 3      \* most submits of the login form

Undecodable == <<>>
NoId == << [id |-> <<>>] >>
WithId(n) == << [id |-> <<n>>] >>

\* the answers of /auth/login and /auth/register to the n-th submit: no token,
\* a JWT whose payload has the user's id, a JWT whose payload is not JSON, a
\* JWE with and without an id in its header, a JWE whose header is not JSON,
\* and a token without a dot
AuthResponses(n) ==
    { [token |-> <<>>],
      [token |-> << [login |-> n, parts |-> <<NoId, WithId(n), Undecodable>>] >>],
      [token |-> << [login |-> n, parts |-> <<NoId, Undecodable, Undecodable>>] >>],
      [token |-> << [login |-> n, parts |-> <<WithId(n), Undecodable, Undecodable,
                                              Undecodable, Undecodable>>] >>],
      [token |-> << [login |-> n, parts |-> <<NoId, Undecodable, Undecodable,
                                              Undecodable, Undecodable>>] >>],
      [token |-> << [login |-> n, parts |-> <<Undecodable, Undecodable, Undecodable,
                                              Undecodable, Undecodable>>] >>],
      [token |-> << [login |-> n, parts |-> <<Undecodable>>] >>] }

\* the form is submitted: handleSubmit up to its await, login/page.tsx:16-24
Submit ==
    /\ route = "login"
    /\ loginPc = "idle"
    /\ logins < MaxLogins
    /\ logins' = logins + 1
    /\ loginError' = ""
    /\ loginLoading' = TRUE
    /\ loginPc' = "await"
    /\ UNCHANGED <<envVars, monthVars, payVars, uploadsVars, billsVars, rowVars, pureVars,
                   pageVars, runVars, dbVars, requests, authToken, storedUserId, route>>

\* login or register rejected, login/page.tsx:78-82
LoginRejected ==
    /\ loginPc = "await"
    /\ loginError' = "Xano request failed on /auth/login"
    /\ loginLoading' = FALSE
    /\ loginPc' = "idle"
    /\ UNCHANGED <<envVars, monthVars, payVars, uploadsVars, billsVars, rowVars, pureVars,
                   pageVars, runVars, dbVars, requests, authToken, storedUserId, route,
                   logins>>

\* what handleSubmit does with a token, login/page.tsx:35-77: the user id it
\* stores (<<>> for none) and the error it shows ("" for none)
readToken(token) ==
    LET parts == token.parts IN
    IF Len(parts) = 3
    THEN IF parts[2] = Undecodable
         THEN [id |-> <<>>, error |-> "Unexpected token"]
         ELSE [id |-> << [login |-> token.login, id |-> parts[2][1].id] >>, error |-> ""]
    ELSE IF Len(parts) = 5
    THEN IF parts[1] = Undecodable
         THEN [id |-> <<>>, error |-> "Could not decode token header"]
         ELSE IF parts[1][1].id # <<>>
         THEN [id |-> << [login |-> token.login, id |-> parts[1][1].id] >>, error |-> ""]
         ELSE [id |-> <<>>,
               error |-> "JWE token - need to update Xano endpoint to return user_id"]
    ELSE [id |-> <<>>, error |-> "Unexpected token format"]

\* login or register resolved, login/page.tsx:26-82
LoginResolved(result) ==
    /\ loginPc = "await"
    /\ result.token # <<>> => result.token[1].login = logins
    /\ IF result.token = <<>>
       THEN /\ loginError' = "No auth token received"
            /\ UNCHANGED <<authToken, storedUserId, route>>
       ELSE LET read == readToken(result.token[1]) IN
            /\ authToken' = result.token
            /\ storedUserId' = IF read.id # <<>> THEN read.id ELSE storedUserId
            /\ loginError' = read.error
            /\ route' = IF read.error = "" THEN "bills" ELSE route
    /\ loginLoading' = FALSE
    /\ loginPc' = "idle"
    /\ UNCHANGED <<envVars, monthVars, payVars, uploadsVars, billsVars, rowVars, pureVars,
                   pageVars, runVars, dbVars, requests, logins>>

\* the mount effect of the bills page without a session, bills/page.tsx:96-102
BillsWithoutSession ==
    /\ route = "bills"
    /\ authToken = <<>> \/ storedUserId = <<>>
    /\ route' = "login"
    /\ UNCHANGED <<envVars, monthVars, payVars, uploadsVars, billsVars, rowVars, pureVars,
                   pageVars, runVars, dbVars, requests, authToken, storedUserId,
                   loginError, loginLoading, loginPc, logins>>

\* handleLogout, bills/page.tsx:404-408
handleLogout ==
    /\ route = "bills"
    /\ authToken' = <<>>
    /\ storedUserId' = <<>>
    /\ route' = "login"
    /\ UNCHANGED <<envVars, monthVars, payVars, uploadsVars, billsVars, rowVars, pureVars,
                   pageVars, runVars, dbVars, requests, loginError, loginLoading, loginPc,
                   logins>>

\* the browser is sent back to /login, or on to /dashboard/bills, by its user: a
\* new page
Visit(page) ==
    /\ route # page
    /\ loginPc = "idle"
    /\ route' = page
    /\ loginError' = ""
    /\ UNCHANGED <<envVars, monthVars, payVars, uploadsVars, billsVars, rowVars, pureVars,
                   pageVars, runVars, dbVars, requests, authToken, storedUserId,
                   loginLoading, loginPc, logins>>

InitLogin ==
    /\ called = "none"
    /\ arg = <<>>
    /\ ret = <<>>
    /\ FlowIdle

NextLogin ==
    \/ Submit
    \/ LoginRejected
    \/ \E result \in UNION {AuthResponses(n) : n \in 1..MaxLogins} : LoginResolved(result)
    \/ BillsWithoutSession
    \/ handleLogout
    \/ \E page \in {"login", "bills"} : Visit(page)

SpecLogin == InitLogin /\ [][NextLogin]_vars

(***************************************************************************)
(* Claims about the login                                                  *)
(***************************************************************************)
\* an attempt ends with an error message in this step
AttemptFails == loginPc = "await" /\ loginPc' = "idle" /\ loginError' # ""

\* C29 (as the spec states it): an attempt that ends with an error message
\* leaves auth_token and user_id as they were and does not navigate; when both
\* are stored they are of the same login; loading is false after an attempt
C29_FailedLoginKeepsSession ==
    /\ [][AttemptFails => /\ authToken' = authToken
                          /\ storedUserId' = storedUserId
                          /\ route' = route]_vars
    /\ []((authToken # <<>> /\ storedUserId # <<>>)
              => authToken[1].login = storedUserId[1].login)
    /\ [](loginPc = "idle" => ~loginLoading)

\* C29 witness: after a login that stored a session, a later attempt has ended
\* with an error message, and the stored token is that of the later attempt
\* beside the user id of the earlier one
C29_Witness ==
    /\ loginPc = "idle"
    /\ loginError # ""
    /\ route = "login"
    /\ authToken # <<>> /\ storedUserId # <<>>
    /\ authToken[1].login = logins
    /\ storedUserId[1].login < logins

====
